---- MODULE Spec2Model ----
(***************************************************************************)
(* Model of the single-symbol limit-order matching engine (hft::OrderBook) *)
(* and of the calls a client makes on it: add_order, cancel_order and      *)
(* modify_order.  The book is the pair of price-ordered maps bids_ / asks_ *)
(* and the index order_lookup_; every operation is a pure operator on the  *)
(* record [bids_, asks_, order_lookup_, trades] and one action applies it. *)
(* get_snapshot is modelled on books with more levels than a snapshot      *)
(* holds (specification SpecSnapshot).  The trade ring of the shared       *)
(* memory region (hft::SharedTrades) is modelled with its producer, the    *)
(* engine's trade callback, and its consumer, the bridge process, each     *)
(* taking one atomic load or store, or one copy of a Trade, per step       *)
(* (specification SpecRing, and SpecRegion for the ring at its full size). *)
(* The snapshot and metrics regions are modelled with their publisher      *)
(* thread and the bridge's broadcast loop (SpecPublish), the snapshot      *)
(* thread running beside add_order in SpecRace, the engine's harness with  *)
(* its counters in SpecHarness, and the start-up and shutdown of the two   *)
(* processes in SpecEngine (SpecEngineLive with the threads scheduled).    *)
(* SpecPublishLive is SpecPublish with the publisher and the bridge        *)
(* scheduled.  The MetricsCollector is modelled with threads that run      *)
(* record_latency one atomic operation per step beside the counters and    *)
(* get_current_metrics (SpecMetrics), and the dashboard's useWebSocket     *)
(* hook with the browser's sockets and timers (SpecHook).                  *)
(***************************************************************************)
EXTENDS Integers, Sequences, FiniteSets, TLC

\* ---------------------------------------------------------------- bounds
MaxId == 2
MaxPrice == 2
MaxQty == 2
MaxTime == 1
MaxOrders == 2
\* the largest number of levels on one side of a book that is snapshotted
MaxLevels == 22

\* the number of slots of the small trade ring, and the number of push
\* calls the producer makes beyond the number of slots
RingCapacity == 4
MaxOverflow == 2

\* the number of orders simulate_order_flow submits
MaxFlow == 3

\* the number of slots of the trade ring the harness pushes into
HarnessCapacity == 2

\* the number of rounds the publisher thread makes
MaxPublications == 3

\* the number of threads that call record_latency, the number of calls
\* they make between them, and the number of times each counter is bumped
MaxCallers == 2
MaxSamples == 2
MaxCount == 2

\* the number of WebSocket objects the dashboard's hook creates, and the
\* number of calls the component makes to connect() and disconnect()
MaxSockets == 7
MaxCalls == 2

\* if (reconnectAttemptsRef.current < 5)
RECONNECT_ATTEMPTS == 5

\* static constexpr size_t MAX_TRADES = 1000
MAX_TRADES == 1000

\* constexpr size_t MAX_BOOK_LEVELS = 20
MAX_BOOK_LEVELS == 20

\* the ids of the orders that are submitted, and the ids a call may name:
\* one more, an id that no order on the book carries
SubmittedIds == 1..MaxId
OrderIds == 1..(MaxId + 1)
Prices == 1..MaxPrice
Quantities == 0..MaxQty
OrderSides == {"BUY", "SELL"}
\* simulate_order_flow submits OrderType::LIMIT only, and no line of
\* OrderBook reads Order::type
OrderTypes == {"LIMIT"}
Ticks == {0, 1}

Min(a, b) == IF a < b THEN a ELSE b

VARIABLES
    bids_,          \* BidMap: price -> OrderBookEntry, best = highest price
    asks_,          \* AskMap: price -> OrderBookEntry, best = lowest price
    order_lookup_,  \* OrderId -> Order (the copy stored at admission)
    now,            \* last reading of high_resolution_clock
    trades,         \* Trades handed to the trade callback by the latest call
    snapshot,       \* the OrderBookSnapshot returned by the latest get_snapshot
    capacity,       \* SharedTrades::MAX_TRADES, the number of slots
    head,           \* SharedTrades::head
    tail,           \* SharedTrades::tail
    ring,           \* SharedTrades::trades, slot -> the Trade it holds
    push_pc,        \* where the producer stands in push
    current_tail,   \* push's local
    push_result,    \* what the latest push returned
    pushed,         \* history: the number of push calls made so far
    unread,         \* history: the slots holding a Trade not yet popped
    accepted,       \* history: the Trades whose push returned true, in order
    pop_pc,         \* where the consumer stands in pop
    current_head,   \* pop's local
    popped_trade,   \* pop's out-parameter trade
    pop_result,     \* what the latest pop returned
    popped,         \* history: the Trades successful pops returned, in order
    shared_ob,      \* SharedOrderBook / SharedMetrics: the published region
    publisher,      \* the publisher thread: its position, local and count
    bridge,         \* the bridge's broadcast loop on the region
    harness,        \* the matching thread in simulate_order_flow
    metrics_collector_,  \* MetricsCollector: its atomic counters
    regions,        \* the shared-memory names: present or absent
    engine,         \* the engine process: main thread and publisher threads
    server,         \* the bridge process (WebSocketServer)
    callers,        \* the threads inside record_latency: position and locals
    recorded,       \* history: the latencies handed to record_latency
    system_metrics, \* the SystemMetrics the latest get_current_metrics returned
    hook            \* the dashboard's useWebSocket: refs, state, sockets, timers

bookVars == <<bids_, asks_, order_lookup_, now, trades>>
producerVars == <<push_pc, current_tail, push_result, pushed, accepted>>
consumerVars == <<pop_pc, current_head, popped_trade, pop_result, popped>>
ringVars == <<capacity, head, tail, ring, unread, producerVars, consumerVars>>
pubVars == <<shared_ob, publisher, bridge>>
lifeVars == <<regions, engine, server>>
collectorVars == <<callers, recorded, system_metrics>>
restVars == <<lifeVars, collectorVars, hook>>
otherVars == <<pubVars, harness, metrics_collector_, restVars>>
vars == <<bids_, asks_, order_lookup_, now, trades, snapshot, capacity, head,
          tail, ring, unread, push_pc, current_tail, push_result, pushed,
          accepted, pop_pc, current_head, popped_trade, pop_result, popped,
          shared_ob, publisher, bridge, harness, metrics_collector_,
          regions, engine, server, callers, recorded, system_metrics,
          hook>>

\* ------------------------------------------------------------ data types
\* Quantity is uint32_t.  The quantities of the model are at most MaxQty and
\* a level aggregate at most (MaxOrders + 1) * MaxQty, far below 2^32, and
\* the matcher subtracts std::min of the two quantities, so no operation
\* below wraps; the wrap of total_quantity at 2^32 is outside the model.
\*
\* struct Order (the symbol, which no operation reads, is left out).  placed and traded are history fields (not program state):
\* the quantity the order was placed on the book with (by add_order, or by
\* modify_order re-adding it with new_quantity) and the sum of the
\* quantities of the trades that have filled it since.
Order(id, price, qty, side, type, ts) ==
    [id |-> id, price |-> price, quantity |-> qty, side |-> side,
     type |-> type, timestamp |-> ts, placed |-> qty, traded |-> 0]

\* OrderBookEntry(Price p) : price(p), total_quantity(0), orders empty
OrderBookEntry(p) == [price |-> p, total_quantity |-> 0, orders |-> <<>>]

\* std::map helpers
MapErase(m, k) == [p \in DOMAIN m \ {k} |-> m[p]]
MapPut(m, k, e) == [p \in DOMAIN m \cup {k} |-> IF p = k THEN e ELSE m[p]]
EmptyMap == [p \in {} |-> 0]

\* mutant: BidMap ordered by std::less, so begin() is the lowest bid
bids_begin_ascending(bids) ==
    CHOOSE p \in DOMAIN bids : \A q \in DOMAIN bids : p <= q

\* bids_.begin()->first under std::greater<Price>: the highest price
bids_begin(bids) == CHOOSE p \in DOMAIN bids : \A q \in DOMAIN bids : q <= p
\* asks_.begin()->first under std::less<Price>: the lowest price
asks_begin(asks) == CHOOSE p \in DOMAIN asks : \A q \in DOMAIN asks : p <= q

\* orders.front()
front(orders) == Head(orders)

\* orders.erase(orders.begin())
erase_front(orders) == Tail(orders)

\* mutant: the loop also stops when the best bid equals the best ask
no_cross_or_equal(best_bid, best_ask) == best_bid.price <= best_ask.price

\* mutant: the comparison reversed, so the loop stops at crossing prices
no_cross_inverted(best_bid, best_ask) == best_bid.price > best_ask.price

\* the loop's exit test: if (best_bid.price < best_ask.price) break;
no_cross(best_bid, best_ask) == best_bid.price < best_ask.price

\* mutant: the comparison reversed, so the later order sets the price
trade_price_of_later(buy_order, sell_order) ==
    IF buy_order.timestamp > sell_order.timestamp
    THEN buy_order.price ELSE sell_order.price

\* mutant: <= for <, so that a tie takes the buy order's price
trade_price_tie_buy(buy_order, sell_order) ==
    IF buy_order.timestamp <= sell_order.timestamp
    THEN buy_order.price ELSE sell_order.price

\* Price trade_price = (buy.timestamp < sell.timestamp) ? buy.price : sell.price
trade_price(buy_order, sell_order) ==
    IF buy_order.timestamp < sell_order.timestamp
    THEN buy_order.price ELSE sell_order.price

\* mutant: the buy order's whole remaining quantity instead of the minimum
trade_quantity_of_buy(buy_order, sell_order) == buy_order.quantity

\* mutant: the sell order's whole remaining quantity instead of the minimum
trade_quantity_of_sell(buy_order, sell_order) == sell_order.quantity

\* mutant: half of the minimum, rounded up
trade_quantity_half(buy_order, sell_order) ==
    (Min(buy_order.quantity, sell_order.quantity) + 1) \div 2

\* Quantity trade_quantity = std::min(buy.quantity, sell.quantity)
trade_quantity(buy_order, sell_order) ==
    Min(buy_order.quantity, sell_order.quantity)

\* execute_trade: the Trade handed to the callback (TradingEngine installs
\* one in its constructor; the trade's own timestamp and symbol, which no
\* operation reads, are left out).  buy / sell / bids / asks are history
\* fields: the two orders and the two sides of the book as they stood at the
\* moment of the match.
execute_trade(buy_order, sell_order, price, quantity, bids, asks) ==
    [buy_order_id |-> buy_order.id, sell_order_id |-> sell_order.id,
     price |-> price, quantity |-> quantity,
     buy |-> buy_order, sell |-> sell_order, bids |-> bids, asks |-> asks]

\* quantity -= trade_quantity on the front order (and on its history field)
fill(order, q) ==
    [order EXCEPT !.quantity = @ - q,
                  !.traded = @ + q]

\* One side of the book after the front order of level p traded q:
\* total_quantity -= q; a front order left with quantity 0 is erased, and
\* the level with it when its sequence becomes empty.
fill_side(side, p, q) ==
    LET level == side[p]
        o == fill(front(level.orders), q)
        total == level.total_quantity - q
    IN IF o.quantity = 0
       THEN IF erase_front(level.orders) = <<>>
            THEN MapErase(side, p)
            ELSE MapPut(side, p, [level EXCEPT !.total_quantity = total,
                                               !.orders = erase_front(@)])
       ELSE MapPut(side, p, [level EXCEPT !.total_quantity = total,
                                          !.orders = <<o>> \o erase_front(@)])

\* void OrderBook::match_orders()
RECURSIVE match_orders(_)
match_orders(st) ==
    IF DOMAIN st.bids_ = {} \/ DOMAIN st.asks_ = {} THEN st
    ELSE
      LET bp == bids_begin(st.bids_)
          ap == asks_begin(st.asks_)
          best_bid == st.bids_[bp]
          best_ask == st.asks_[ap]
      IN IF no_cross(best_bid, best_ask) THEN st
         ELSE
           LET buy_order == front(best_bid.orders)
               sell_order == front(best_ask.orders)
               tp == trade_price(buy_order, sell_order)
               tq == trade_quantity(buy_order, sell_order)
               trade == execute_trade(buy_order, sell_order, tp, tq,
                                      st.bids_, st.asks_)
               buy_left == buy_order.quantity - tq
               sell_left == sell_order.quantity - tq
               lk1 == IF buy_left = 0
                      THEN MapErase(st.order_lookup_, buy_order.id)
                      ELSE st.order_lookup_
               lk2 == IF sell_left = 0
                      THEN MapErase(lk1, sell_order.id)
                      ELSE lk1
           IN match_orders([bids_ |-> fill_side(st.bids_, bp, tq),
                            asks_ |-> fill_side(st.asks_, ap, tq),
                            order_lookup_ |-> lk2,
                            trades |-> Append(st.trades, trade)])

\* auto& entry = side[order.price]; if (entry.orders.empty()) entry =
\* OrderBookEntry(order.price); entry.orders.push_back(order);
\* entry.total_quantity += order.quantity;
insert_order(side, order) ==
    LET entry == IF order.price \in DOMAIN side /\ side[order.price].orders # <<>>
                 THEN side[order.price]
                 ELSE OrderBookEntry(order.price)
    IN MapPut(side, order.price,
              [entry EXCEPT !.orders = Append(@, order),
                            !.total_quantity = @ + order.quantity])

\* mutant: order_lookup_.insert({order.id, order}), which keeps an entry the
\* index already holds
add_order_keeps_entry(st, order) ==
    match_orders(
        [bids_ |-> IF order.side = "BUY" THEN insert_order(st.bids_, order)
                   ELSE st.bids_,
         asks_ |-> IF order.side = "BUY" THEN st.asks_
                   ELSE insert_order(st.asks_, order),
         order_lookup_ |-> IF order.id \in DOMAIN st.order_lookup_
                           THEN st.order_lookup_
                           ELSE MapPut(st.order_lookup_, order.id, order),
         trades |-> st.trades])

\* void OrderBook::add_order(const Order& order)
add_order(st, order) ==
    match_orders(
        [bids_ |-> IF order.side = "BUY" THEN insert_order(st.bids_, order)
                   ELSE st.bids_,
         asks_ |-> IF order.side = "BUY" THEN st.asks_
                   ELSE insert_order(st.asks_, order),
         order_lookup_ |-> MapPut(st.order_lookup_, order.id, order),
         trades |-> st.trades])

\* std::find_if(orders.begin(), orders.end(), o.id == order.id): the index of
\* the first order of the sequence with this id, 0 for orders.end()
find_if(orders, id) ==
    IF \E i \in 1..Len(orders) : orders[i].id = id
    THEN CHOOSE i \in 1..Len(orders) :
            /\ orders[i].id = id
            /\ \A j \in 1..(i - 1) : orders[j].id # id
    ELSE 0

\* orders.erase(order_it)
erase_at(orders, i) ==
    [j \in 1..(Len(orders) - 1) |-> IF j < i THEN orders[j] ELSE orders[j + 1]]

\* mutant: the whole level is erased with the order, whatever else it holds
remove_from_side_erases_level(side, order) ==
    IF order.price \notin DOMAIN side THEN side
    ELSE IF find_if(side[order.price].orders, order.id) = 0 THEN side
         ELSE MapErase(side, order.price)

\* one branch of remove_order_from_book, on the side the order names
remove_from_side(side, order) ==
    IF order.price \notin DOMAIN side THEN side
    ELSE LET level == side[order.price]
             i == find_if(level.orders, order.id)
         IN IF i = 0 THEN side
            ELSE IF erase_at(level.orders, i) = <<>>
                 THEN MapErase(side, order.price)
                 ELSE MapPut(side, order.price,
                        [level EXCEPT
                           !.total_quantity =
                               @ - level.orders[i].quantity,
                           !.orders = erase_at(@, i)])

\* void OrderBook::remove_order_from_book(const Order& order)
remove_order_from_book(st, order) ==
    IF order.side = "BUY"
    THEN [st EXCEPT !.bids_ = remove_from_side(@, order)]
    ELSE [st EXCEPT !.asks_ = remove_from_side(@, order)]

\* mutant: order_lookup_.erase(it) forgotten
cancel_order_keeps_index(st, order_id) ==
    IF order_id \in DOMAIN st.order_lookup_
    THEN remove_order_from_book(st, st.order_lookup_[order_id])
    ELSE st

\* void OrderBook::cancel_order(OrderId order_id)
cancel_order(st, order_id) ==
    IF order_id \in DOMAIN st.order_lookup_
    THEN [remove_order_from_book(st, st.order_lookup_[order_id])
            EXCEPT !.order_lookup_ = MapErase(@, order_id)]
    ELSE st

\* mutant: an order whose price does not change is rewritten where it stands
\* in its level instead of being removed and added again
modify_order_in_place(st, order_id, new_price, new_quantity, ts) ==
    IF order_id \in DOMAIN st.order_lookup_
    THEN LET old_order == st.order_lookup_[order_id]
             new_order == [old_order EXCEPT
                             !.price = new_price,
                             !.quantity = new_quantity,
                             !.timestamp = ts,
                             !.placed = new_quantity,
                             !.traded = 0]
             side == IF old_order.side = "BUY" THEN st.bids_ ELSE st.asks_
             i == IF new_price = old_order.price /\ new_price \in DOMAIN side
                  THEN find_if(side[new_price].orders, order_id) ELSE 0
             level == side[new_price]
             rewritten ==
                 MapPut(side, new_price,
                    [level EXCEPT
                       !.total_quantity =
                           (@ - level.orders[i].quantity) + new_quantity,
                       !.orders = [@ EXCEPT ![i] = new_order]])
         IN IF i = 0
            THEN add_order(remove_order_from_book(st, old_order), new_order)
            ELSE match_orders(
                   [bids_ |-> IF old_order.side = "BUY" THEN rewritten
                              ELSE st.bids_,
                    asks_ |-> IF old_order.side = "BUY" THEN st.asks_
                              ELSE rewritten,
                    order_lookup_ |->
                        MapPut(st.order_lookup_, order_id, new_order),
                    trades |-> st.trades])
    ELSE st

\* void OrderBook::modify_order(OrderId, Price new_price, Quantity new_quantity)
modify_order(st, order_id, new_price, new_quantity, ts) ==
    IF order_id \in DOMAIN st.order_lookup_
    THEN LET old_order == st.order_lookup_[order_id]
             new_order == [old_order EXCEPT
                             !.price = new_price,
                             !.quantity = new_quantity,
                             !.timestamp = ts,
                             !.placed = new_quantity,
                             !.traded = 0]
         IN add_order(remove_order_from_book(st, old_order), new_order)
    ELSE st

\* struct BookLevel { price, quantity, order_count }
BookLevel(price, quantity, order_count) ==
    [price |-> price, quantity |-> quantity, order_count |-> order_count]

\* mutant: the loop stops one level late (> for >=)
RECURSIVE snapshot_bids_one_more(_, _)
snapshot_bids_one_more(bids, levels) ==
    IF DOMAIN bids = {} \/ Len(levels) > MAX_BOOK_LEVELS THEN levels
    ELSE LET price == bids_begin(bids)
         IN snapshot_bids_one_more(
                MapErase(bids, price),
                Append(levels, BookLevel(price, bids[price].total_quantity,
                                         Len(bids[price].orders))))

\* for (const auto& [price, entry] : bids_) { if (snapshot.bid_count >=
\* MAX_BOOK_LEVELS) break; snapshot.bids[snapshot.bid_count] = {price,
\* entry.total_quantity, entry.orders.size()}; snapshot.bid_count++; }
\* levels are the entries written so far; the map is walked from begin()
RECURSIVE snapshot_bids(_, _)
snapshot_bids(bids, levels) ==
    IF DOMAIN bids = {} \/ Len(levels) >= MAX_BOOK_LEVELS THEN levels
    ELSE LET price == bids_begin(bids)
         IN snapshot_bids(
                MapErase(bids, price),
                Append(levels, BookLevel(price, bids[price].total_quantity,
                                         Len(bids[price].orders))))

\* the same loop over asks_
RECURSIVE snapshot_asks(_, _)
snapshot_asks(asks, levels) ==
    IF DOMAIN asks = {} \/ Len(levels) >= MAX_BOOK_LEVELS THEN levels
    ELSE LET price == asks_begin(asks)
         IN snapshot_asks(
                MapErase(asks, price),
                Append(levels, BookLevel(price, asks[price].total_quantity,
                                         Len(asks[price].orders))))

\* OrderBookSnapshot OrderBook::get_snapshot() const.  bids and asks are the
\* first bid_count / ask_count elements of the two arrays; the elements
\* behind them are never written and are left out, as are the symbol and
\* the timestamp.  taken is a history field: FALSE until the first call.
get_snapshot(st) ==
    LET bids == snapshot_bids(st.bids_, <<>>)
        asks == snapshot_asks(st.asks_, <<>>)
    IN [bids |-> bids, asks |-> asks,
        bid_count |-> Len(bids), ask_count |-> Len(asks), taken |-> TRUE]

NoSnapshot ==
    [bids |-> <<>>, asks |-> <<>>, bid_count |-> 0, ask_count |-> 0,
     taken |-> FALSE]

\* ------------------------------------------------- the metrics collector
\* static constexpr size_t HISTOGRAM_BUCKETS = 50
HISTOGRAM_BUCKETS == 50

\* static constexpr uint64_t MAX_LATENCY_NS = 1000000
MAX_LATENCY_NS == 1000000

\* min_latency_ns_{UINT64_MAX}.  The integers of the model end at 2^31 - 1,
\* which stands here for the largest uint64_t: record_latency does nothing
\* with it but compare a latency against it.
UINT64_MAX == 2147483647

\* std::array<std::atomic<uint32_t>, HISTOGRAM_BUCKETS>: the indices
Buckets == 0..(HISTOGRAM_BUCKETS - 1)

\* The latencies handed to record_latency: both ends of the first bucket,
\* MAX_LATENCY_NS itself and a latency far beyond it.  A uint64_t above the
\* integers of the model takes the same branch of every comparison as the
\* largest latency here.
Latencies == {0, 19999, 1000000, 500000000}

\* the latencies the harness measures around add_order
HarnessLatencies == {19999, 1000000}

Callers == 1..MaxCallers

\* mutant: the branch of the long latencies indexes one past the last bucket
histogram_bucket_past_end(latency_ns) ==
    IF latency_ns < MAX_LATENCY_NS
    THEN LET bucket == (latency_ns * HISTOGRAM_BUCKETS) \div MAX_LATENCY_NS
         IN  IF bucket >= HISTOGRAM_BUCKETS THEN HISTOGRAM_BUCKETS - 1
             ELSE bucket
    ELSE HISTOGRAM_BUCKETS

\* record_latency, "Update histogram": the index of the bucket that is
\* incremented.  The product is formed only below MAX_LATENCY_NS, where it
\* is less than 50000000.
histogram_bucket(latency_ns) ==
    IF latency_ns < MAX_LATENCY_NS
    THEN LET bucket == (latency_ns * HISTOGRAM_BUCKETS) \div MAX_LATENCY_NS
         IN  IF bucket >= HISTOGRAM_BUCKETS THEN HISTOGRAM_BUCKETS - 1
             ELSE bucket
    ELSE HISTOGRAM_BUCKETS - 1

\* latency_histogram_[bucket].fetch_add(1)
histogram_add(latency_histogram, latency_ns) ==
    [b \in DOMAIN latency_histogram |->
        IF b = histogram_bucket(latency_ns) THEN latency_histogram[b] + 1
        ELSE latency_histogram[b]]

\* mutant: the counter is one bit wide
fetch_add_narrow(atomic, arg) == (atomic + arg) % 2

\* std::atomic::fetch_add(arg) on a counter: the value it leaves
fetch_add(atomic, arg) == atomic + arg

\* mutant: the exchange does not compare, it stores
exchange_unconditionally(atomic, expected, desired) ==
    [success |-> TRUE, atomic |-> desired, expected |-> expected]

\* std::atomic::compare_exchange_weak(expected, desired): stores desired
\* when the atomic holds expected, and otherwise loads the atomic into
\* expected.  A spurious failure leaves everything as it was.
compare_exchange_weak(atomic, expected, desired) ==
    IF atomic = expected
    THEN [success |-> TRUE, atomic |-> desired, expected |-> expected]
    ELSE [success |-> FALSE, atomic |-> atomic, expected |-> atomic]

\* MetricsCollector::record_latency with no other writer at work
record_latency(m, latency_ns) ==
    [m EXCEPT
       !.total_latency_ns_ = @ + latency_ns,
       !.latency_samples_ = @ + 1,
       !.min_latency_ns_ = IF latency_ns < @ THEN latency_ns ELSE @,
       !.max_latency_ns_ = IF latency_ns > @ THEN latency_ns ELSE @,
       !.latency_histogram_ = histogram_add(@, latency_ns)]

\* mutant: the extremes are reported as they are stored, samples or not
get_current_metrics_unguarded(m) ==
    LET samples == m.latency_samples_
    IN  [orders_processed |-> m.orders_processed_,
         trades_executed |-> m.trades_executed_,
         avg_latency_ns |-> IF samples > 0
                            THEN m.total_latency_ns_ \div samples ELSE 0,
         min_latency_ns |-> m.min_latency_ns_,
         max_latency_ns |-> m.max_latency_ns_]

\* MetricsCollector::get_current_metrics: the counters and the derived
\* latencies of the SystemMetrics it returns (the timestamp and the host's
\* cpu, memory and network samples are left out)
get_current_metrics(m) ==
    LET samples == m.latency_samples_
    IN  [orders_processed |-> m.orders_processed_,
         trades_executed |-> m.trades_executed_,
         avg_latency_ns |-> IF samples > 0
                            THEN m.total_latency_ns_ \div samples ELSE 0,
         min_latency_ns |-> IF samples > 0 THEN m.min_latency_ns_ ELSE 0,
         max_latency_ns |-> IF samples > 0 THEN m.max_latency_ns_ ELSE 0]

\* SystemMetrics metrics; before any member is assigned
NoMetrics ==
    [orders_processed |-> 0, trades_executed |-> 0, avg_latency_ns |-> 0,
     min_latency_ns |-> 0, max_latency_ns |-> 0]

\* -------------------------------------------------- the dashboard's hook
\* connect(): nothing when the current socket is open; otherwise the status
\* becomes 'connecting' and wsRef.current a new WebSocket, which starts in
\* readyState CONNECTING.  A socket that wsRef.current held before is not
\* closed and keeps its handlers.
connect(h) ==
    IF h.wsRef # 0 /\ h.sockets[h.wsRef] = "OPEN" THEN h
    ELSE [h EXCEPT !.connectionStatus = "connecting",
                   !.sockets = Append(@, "CONNECTING"),
                   !.wsRef = Len(h.sockets) + 1]

\* onopen: setConnectionStatus('connected'); reconnectAttemptsRef.current = 0
\* (lost is a history field: a connection has been lost and none opened
\* since)
onopen(h) ==
    [h EXCEPT !.connectionStatus = "connected",
              !.reconnectAttemptsRef = 0,
              !.lost = FALSE]

\* const delay = Math.pow(2, reconnectAttemptsRef.current) * 1000
reconnect_delay(attempts) == (2 ^ attempts) * 1000

\* onclose (after onerror, when the connection failed; both set the status
\* 'disconnected'): below the limit of attempts a timer is set and kept in
\* reconnectTimeoutRef
onclose(h) ==
    LET closed == [h EXCEPT !.connectionStatus = "disconnected"]
    IN  IF h.reconnectAttemptsRef < RECONNECT_ATTEMPTS
        THEN [closed EXCEPT
                !.timers = Append(@, [delay |->
                                        reconnect_delay(h.reconnectAttemptsRef),
                                      state |-> "pending"]),
                !.reconnectTimeoutRef = Len(h.timers) + 1]
        ELSE closed

\* if (reconnectTimeoutRef.current) clearTimeout(reconnectTimeoutRef.current):
\* clearing a timer that has fired or was cleared does nothing
clear_timeout(h) ==
    IF h.reconnectTimeoutRef # 0
    THEN [h EXCEPT !.timers[h.reconnectTimeoutRef].state =
                      IF @ = "pending" THEN "cleared" ELSE @]
    ELSE h

\* if (wsRef.current) wsRef.current.close(): a socket that is connecting or
\* open starts to close, and its close event is delivered later
close_socket(h) ==
    IF h.wsRef # 0
    THEN [h EXCEPT !.sockets[h.wsRef] =
                      IF @ \in {"CONNECTING", "OPEN"} THEN "CLOSING" ELSE @]
    ELSE h

\* the cleanup function of the effect
effect_cleanup(h) == close_socket(clear_timeout(h))

\* disconnect()
disconnect(h) ==
    [close_socket(clear_timeout(h)) EXCEPT !.connectionStatus = "disconnected"]

\* the hook's refs and state before the effect has run.  stopped,
\* sockets_at_stop, lost and calls are history fields.
HookInit ==
    hook = [mounted |-> FALSE, unmounted |-> FALSE,
            connectionStatus |-> "disconnected", sockets |-> <<>>,
            wsRef |-> 0, timers |-> <<>>, reconnectTimeoutRef |-> 0,
            reconnectAttemptsRef |-> 0, calls |-> 0, stopped |-> FALSE,
            sockets_at_stop |-> 0, lost |-> FALSE]

\* ---------------------------------------------------------------- state
\* the book as the record the operators work on, with no trade emitted yet
Book == [bids_ |-> bids_, asks_ |-> asks_, order_lookup_ |-> order_lookup_,
         trades |-> <<>>]

\* every position <<price, index>> of a side, and every order resting on it
SidePositions(side) ==
    UNION {{<<p, i>> : i \in 1..Len(side[p].orders)} : p \in DOMAIN side}

SideOrders(side) == {side[x[1]].orders[x[2]] : x \in SidePositions(side)}

SideCount(side) == Cardinality(SidePositions(side))

\* the number of orders resting on the book
BookCount(st) == SideCount(st.bids_) + SideCount(st.asks_)

\* SharedTrades in the zero-filled region, with n slots: head{0}, tail{0},
\* no Trade written (0 stands for the bytes of a slot never written), nobody
\* inside push or pop
Slots == 0..(RingCapacity - 1)

RingOf(n) ==
    /\ capacity = n
    /\ head = 0
    /\ tail = 0
    /\ ring = [s \in 0..(n - 1) |-> 0]
    /\ unread = {}
    /\ push_pc = "idle"
    /\ current_tail = 0
    /\ push_result = TRUE
    /\ pushed = 0
    /\ accepted = <<>>
    /\ pop_pc = "idle"
    /\ current_head = 0
    /\ popped_trade = 0
    /\ pop_result = FALSE
    /\ popped = <<>>

RingInit == RingOf(RingCapacity)

\* the Trades 1..n in the order they were pushed
FirstPushes(n) == [i \in 1..n |-> i]

\* SharedTrades with n slots after k < n calls of push, each followed by a
\* call of pop that returned its Trade
RingAfter(n, k) ==
    /\ capacity = n
    /\ head = k
    /\ tail = k
    /\ ring = [s \in 0..(n - 1) |-> IF s < k THEN s + 1 ELSE 0]
    /\ unread = {}
    /\ push_pc = "idle"
    /\ current_tail = k - 1
    /\ push_result = TRUE
    /\ pushed = k
    /\ accepted = FirstPushes(k)
    /\ pop_pc = "idle"
    /\ current_head = k - 1
    /\ popped_trade = k
    /\ pop_result = TRUE
    /\ popped = FirstPushes(k)

\* A published region as create leaves it (sequence_number{0}, ready{false},
\* the payload zero-filled; the payload is written and read one member at a
\* time and is modelled as two members), the publisher thread before its
\* first round and the bridge with last_orderbook_seq_ = 0 and nothing
\* broadcast.  The snapshot region and the metrics region are declared,
\* written and read by code of the same shape and share this model.
PubInit ==
    /\ shared_ob = [sequence_number |-> 0, payload |-> <<0, 0>>,
                    ready |-> FALSE]
    /\ publisher = [pc |-> "idle", local |-> 0, published |-> 0]
    /\ bridge = [pc |-> "idle", current_seq |-> 0, json |-> <<0, 0>>,
                 last_seq |-> 0, broadcasts |-> <<>>]

\* the matching thread before its first order: next_order_id_{1}, outside
\* add_order, no Trade handed to the callback
HarnessInit ==
    harness = [pc |-> "idle", next_order_id_ |-> 1,
               order |-> Order(0, 0, 0, "BUY", "LIMIT", 0),
               pending |-> <<>>, emitted |-> 0]

\* MetricsCollector::MetricsCollector(): every counter and every bucket is
\* 0, the minimum is UINT64_MAX
MetricsInit ==
    metrics_collector_ = [orders_processed_ |-> 0, trades_executed_ |-> 0,
                          total_latency_ns_ |-> 0,
                          min_latency_ns_ |-> UINT64_MAX,
                          max_latency_ns_ |-> 0,
                          latency_samples_ |-> 0,
                          latency_histogram_ |-> [b \in Buckets |-> 0]]

\* no thread is inside record_latency, nothing was recorded and
\* get_current_metrics has not returned yet
CollectorInit ==
    /\ callers = [c \in Callers |->
                    [pc |-> "idle", latency_ns |-> 0, current_min |-> 0,
                     current_max |-> 0]]
    /\ recorded = <<>>
    /\ system_metrics = [returned |-> FALSE, metrics |-> NoMetrics]

\* the three names of SharedMemoryManager
RegionNames == {"/hft_orderbook", "/hft_metrics", "/hft_trades"}

\* Both processes at the first statement of their constructor bodies, with
\* running_(true), no name created, no thread started, g_engine = nullptr,
\* nothing written to stderr and no exit status yet.
LifeInit ==
    /\ regions = [n \in RegionNames |-> "absent"]
    /\ engine = [pc |-> "create_orderbook", running_ |-> TRUE,
                 g_engine |-> FALSE, metrics_thread |-> "none",
                 orderbook_thread |-> "none", create_failed |-> FALSE,
                 admitted |-> FALSE, reported |-> FALSE,
                 wrote_unlinked |-> FALSE, exit_status |-> -1]
    /\ server = [pc |-> "open_orderbook", open_failed |-> FALSE,
                 broadcasting |-> FALSE, reported |-> FALSE,
                 exit_status |-> -1]

OtherInit ==
    PubInit /\ HarnessInit /\ MetricsInit /\ CollectorInit /\ LifeInit
    /\ HookInit

\* OrderBook::OrderBook(symbol): both maps and the index are empty
Init ==
    /\ bids_ = EmptyMap
    /\ asks_ = EmptyMap
    /\ order_lookup_ = EmptyMap
    /\ now = 0
    /\ trades = <<>>
    /\ snapshot = NoSnapshot
    /\ RingInit
    /\ OtherInit

Install(st) ==
    /\ bids_' = st.bids_
    /\ asks_' = st.asks_
    /\ order_lookup_' = st.order_lookup_
    /\ trades' = st.trades

\* Order order(id, price, quantity, side, type, symbol); add_order(order);
\* the constructor stamps the order with the clock, which may or may not
\* have advanced since it was last read.  The call is made only when it
\* leaves at most MaxOrders orders resting, which keeps the book finite.
AddOrder ==
    \E id \in SubmittedIds, price \in Prices, qty \in Quantities,
       side \in OrderSides, type \in OrderTypes, tick \in Ticks :
        LET st == add_order(Book, Order(id, price, qty, side, type, now + tick))
        IN /\ now + tick <= MaxTime
           /\ BookCount(st) <= MaxOrders
           /\ now' = now + tick
           /\ Install(st)
           /\ UNCHANGED <<snapshot, ringVars, otherVars>>

CancelOrder ==
    \E id \in SubmittedIds :
        /\ Install(cancel_order(Book, id))
        /\ UNCHANGED <<now, snapshot, ringVars, otherVars>>

\* modify_order reads the clock only when it finds the id
ModifyOrder ==
    \E id \in SubmittedIds, new_price \in Prices, new_quantity \in Quantities,
       tick \in Ticks :
        /\ now + tick <= MaxTime
        /\ now' = IF id \in DOMAIN order_lookup_ THEN now + tick ELSE now
        /\ Install(modify_order(Book, id, new_price, new_quantity, now + tick))
        /\ UNCHANGED <<snapshot, ringVars, otherVars>>

Next == AddOrder \/ CancelOrder \/ ModifyOrder

Spec == Init /\ [][Next]_vars

\* ------------------------------------------- books with larger quantities
\* the same calls with prices one tick apart and quantities that a single
\* resting order cannot absorb, made within one reading of the clock
WalkPrices == {9999, 10000}
WalkQuantities == {5, 8}

WalkAddOrder ==
    \E id \in SubmittedIds, price \in WalkPrices, qty \in WalkQuantities,
       side \in OrderSides, type \in OrderTypes :
        LET st == add_order(Book, Order(id, price, qty, side, type, now))
        IN /\ BookCount(st) <= MaxOrders
           /\ Install(st)
           /\ UNCHANGED <<now, snapshot, ringVars, otherVars>>

WalkNext == WalkAddOrder \/ CancelOrder

SpecWalk == Init /\ [][WalkNext]_vars

\* ------------------------------------------------- snapshots of deep books
\* A level of a deep book: the order add_order was first called with at
\* this price, of quantity 1 or 2, and at every third price a second order of
\* quantity q behind it.  All orders are Limit orders with distinct ids.
LadderLevel(side, price, q) ==
    LET quantity == 1 + (price % 2)
        first == <<Order(price, price, quantity, side, "LIMIT", 0)>>
    IN IF price % 3 = 0
       THEN [price |-> price, total_quantity |-> quantity + q,
             orders |-> first \o <<Order(price + 2 * MaxLevels, price, q,
                                         side, "LIMIT", 0)>>]
       ELSE [price |-> price, total_quantity |-> quantity, orders |-> first]

\* the side of the book left by add_order calls at the prices lo..hi
LadderSide(side, lo, hi, q) == [p \in lo..hi |-> LadderLevel(side, p, q)]

\* the index of a book: every resting order under its id
IndexOf(bids, asks) ==
    LET resting == SideOrders(bids) \cup SideOrders(asks)
    IN [id \in {o.id : o \in resting} |->
            CHOOSE o \in resting : o.id = id]

\* the book after add_order calls for nb bid levels at the prices 1..nb and
\* na ask levels above every bid, none of which crosses
SnapshotInit ==
    \E nb \in 0..MaxLevels, na \in 0..MaxLevels, q \in 1..MaxQty :
        /\ bids_ = LadderSide("BUY", 1, nb, q)
        /\ asks_ = LadderSide("SELL", MaxLevels + 1, MaxLevels + na, q)
        /\ order_lookup_ = IndexOf(bids_, asks_)
        /\ trades = <<>>
        /\ now = 0
        /\ snapshot = NoSnapshot
        /\ RingInit
        /\ OtherInit

\* auto snapshot = order_book_.get_snapshot(), with no call in progress
GetSnapshot ==
    /\ snapshot' = get_snapshot(Book)
    /\ UNCHANGED <<bookVars, ringVars, otherVars>>

SnapshotNext == GetSnapshot

SpecSnapshot == SnapshotInit /\ [][SnapshotNext]_vars

\* ------------------------------------------------------- the trade ring
\* mutant: the index is not reduced modulo the number of slots
next_tail_unreduced == current_tail + 1

\* uint32_t next_tail = (current_tail + 1) % MAX_TRADES
next_tail == (current_tail + 1) % capacity

\* mutant: pop stores the index it loaded
next_head_same == current_head

\* (current_head + 1) % MAX_TRADES
next_head == (current_head + 1) % capacity

\* mutant: the test for a full buffer never succeeds
ring_never_full(next, h) == FALSE

\* mutant: the buffer counts as full one slot early
ring_full_early(next, h) == next = h \/ (next + 1) % capacity = h

\* if (next_tail == head.load())
ring_full(next, h) == next = h

\* push: uint32_t current_tail = tail.load().  The Trade pushed by the n-th
\* call is written n; the producer makes MaxOverflow calls more than the
\* ring has slots.
PushLoadTail ==
    /\ push_pc = "idle"
    /\ pushed < capacity + MaxOverflow
    /\ current_tail' = tail
    /\ pushed' = pushed + 1
    /\ push_pc' = "check"
    /\ UNCHANGED <<capacity, head, tail, ring, unread, push_result, accepted,
                   consumerVars>>

\* push: if (next_tail == head.load()) return false;
PushLoadHead ==
    /\ push_pc = "check"
    /\ IF ring_full(next_tail, head)
       THEN push_pc' = "idle" /\ push_result' = FALSE
       ELSE push_pc' = "write" /\ UNCHANGED push_result
    /\ UNCHANGED <<capacity, head, tail, ring, unread, current_tail, pushed,
                   accepted, consumerVars>>

\* push: trades[current_tail] = trade.  The copy is in progress while
\* push_pc = "write" and is complete with this step.
PushWrite ==
    /\ push_pc = "write"
    /\ ring' = [ring EXCEPT ![current_tail] = pushed]
    /\ unread' = unread \cup {current_tail}
    /\ push_pc' = "store"
    /\ UNCHANGED <<capacity, head, tail, current_tail, push_result, pushed,
                   accepted, consumerVars>>

\* push: tail.store(next_tail); return true;
PushStoreTail ==
    /\ push_pc = "store"
    /\ tail' = next_tail
    /\ push_result' = TRUE
    /\ accepted' = Append(accepted, pushed)
    /\ push_pc' = "idle"
    /\ UNCHANGED <<capacity, head, ring, unread, current_tail, pushed,
                   consumerVars>>

\* pop: uint32_t current_head = head.load()
PopLoadHead ==
    /\ pop_pc = "idle"
    /\ current_head' = head
    /\ pop_pc' = "check"
    /\ UNCHANGED <<capacity, head, tail, ring, unread, producerVars,
                   popped_trade, pop_result, popped>>

\* pop: if (current_head == tail.load()) return false;
PopLoadTail ==
    /\ pop_pc = "check"
    /\ IF current_head = tail
       THEN pop_pc' = "idle" /\ pop_result' = FALSE
       ELSE pop_pc' = "read" /\ UNCHANGED pop_result
    /\ UNCHANGED <<capacity, head, tail, ring, unread, producerVars,
                   current_head, popped_trade, popped>>

\* pop: trade = trades[current_head].  The copy is in progress while
\* pop_pc = "read" and is complete with this step.
PopRead ==
    /\ pop_pc = "read"
    /\ popped_trade' = ring[current_head]
    /\ unread' = unread \ {current_head}
    /\ pop_pc' = "store"
    /\ UNCHANGED <<capacity, head, tail, ring, producerVars, current_head,
                   pop_result, popped>>

\* pop: head.store((current_head + 1) % MAX_TRADES); return true;
PopStoreHead ==
    /\ pop_pc = "store"
    /\ head' = next_head
    /\ pop_result' = TRUE
    /\ popped' = Append(popped, popped_trade)
    /\ pop_pc' = "idle"
    /\ UNCHANGED <<capacity, tail, ring, unread, producerVars, current_head,
                   popped_trade>>

\* one producer (the engine's matching thread, in handle_trade) and one
\* consumer (the bridge process), interleaved step by step
RingNext ==
    /\ \/ PushLoadTail \/ PushLoadHead \/ PushWrite \/ PushStoreTail
       \/ PopLoadHead \/ PopLoadTail \/ PopRead \/ PopStoreHead
    /\ UNCHANGED <<bookVars, snapshot, otherVars>>

SpecRing == Init /\ [][RingNext]_vars

\* the ring of region /hft_trades at its full size, from the state it is in
\* after MAX_TRADES - 3 Trades have gone through it, so that the calls that
\* follow take both indices around the end of the array
RegionInit ==
    /\ bids_ = EmptyMap
    /\ asks_ = EmptyMap
    /\ order_lookup_ = EmptyMap
    /\ now = 0
    /\ trades = <<>>
    /\ snapshot = NoSnapshot
    /\ RingAfter(MAX_TRADES, MAX_TRADES - 3)
    /\ OtherInit

SpecRegion == RegionInit /\ [][RingNext]_vars

\* ------------------------------------------ snapshot and metrics regions
\* mutant: the bridge broadcasts again at the sequence it broadcast last
seq_not_older(current_seq, last_seq) == current_seq >= last_seq

\* if (current_seq > last_orderbook_seq_)
seq_newer(current_seq, last_seq) == current_seq > last_seq

\* auto snapshot = order_book_.get_snapshot() / auto metrics =
\* metrics_collector_.get_current_metrics(): the value of the n-th round is
\* written n in both members.  The thread makes MaxPublications rounds.
PubTake ==
    /\ publisher.pc = "idle"
    /\ publisher.published < MaxPublications
    /\ publisher' = [publisher EXCEPT !.pc = "seq",
                                      !.local = publisher.published + 1]
    /\ UNCHANGED <<shared_ob, bridge>>

\* shared_ob->sequence_number.fetch_add(1)
PubFetchAdd ==
    /\ publisher.pc = "seq"
    /\ shared_ob' = [shared_ob EXCEPT
                        !.sequence_number = shared_ob.sequence_number + 1]
    /\ publisher' = [publisher EXCEPT !.pc = "copy1"]
    /\ UNCHANGED bridge

\* shared_ob->snapshot = snapshot, first member (a plain store)
PubCopyFirst ==
    /\ publisher.pc = "copy1"
    /\ shared_ob' = [shared_ob EXCEPT !.payload[1] = publisher.local]
    /\ publisher' = [publisher EXCEPT !.pc = "copy2"]
    /\ UNCHANGED bridge

\* shared_ob->snapshot = snapshot, second member (a plain store)
PubCopySecond ==
    /\ publisher.pc = "copy2"
    /\ shared_ob' = [shared_ob EXCEPT !.payload[2] = publisher.local]
    /\ publisher' = [publisher EXCEPT !.pc = "ready"]
    /\ UNCHANGED bridge

\* shared_ob->ready.store(true), and the sleep that ends the round
PubStoreReady ==
    /\ publisher.pc = "ready"
    /\ shared_ob' = [shared_ob EXCEPT !.ready = TRUE]
    /\ publisher' = [publisher EXCEPT !.pc = "idle",
                                      !.published = publisher.published + 1]
    /\ UNCHANGED bridge

\* mutant: the bridge does not look at the flag
ready_assumed(shared) == TRUE

\* shared_ob->ready.load()
ready_load(shared) == shared.ready

\* if (shared_ob && shared_ob->ready.load()), else sleep and test again
BridgeLoadReady ==
    /\ bridge.pc = "idle"
    /\ bridge' = [bridge EXCEPT
                     !.pc = IF ready_load(shared_ob) THEN "seq" ELSE "idle"]
    /\ UNCHANGED <<shared_ob, publisher>>

\* uint64_t current_seq = shared_ob->sequence_number.load();
\* if (current_seq > last_orderbook_seq_), else sleep
BridgeLoadSeq ==
    /\ bridge.pc = "seq"
    /\ bridge' = [bridge EXCEPT
                     !.current_seq = shared_ob.sequence_number,
                     !.pc = IF seq_newer(shared_ob.sequence_number,
                                         bridge.last_seq)
                            THEN "read1" ELSE "idle"]
    /\ UNCHANGED <<shared_ob, publisher>>

\* serialize_orderbook(shared_ob->snapshot), first member (a plain load)
BridgeReadFirst ==
    /\ bridge.pc = "read1"
    /\ bridge' = [bridge EXCEPT !.json[1] = shared_ob.payload[1],
                                !.pc = "read2"]
    /\ UNCHANGED <<shared_ob, publisher>>

\* serialize_orderbook(shared_ob->snapshot), second member (a plain load)
BridgeReadSecond ==
    /\ bridge.pc = "read2"
    /\ bridge' = [bridge EXCEPT !.json[2] = shared_ob.payload[2],
                                !.pc = "publish"]
    /\ UNCHANGED <<shared_ob, publisher>>

\* app.publish("orderbook", json, ...); last_orderbook_seq_ = current_seq;
\* and the sleep that ends the round
BridgePublish ==
    /\ bridge.pc = "publish"
    /\ bridge' = [bridge EXCEPT
                     !.broadcasts = Append(bridge.broadcasts,
                                           [seq |-> bridge.current_seq,
                                            payload |-> bridge.json]),
                     !.last_seq = bridge.current_seq,
                     !.pc = "idle"]
    /\ UNCHANGED <<shared_ob, publisher>>

\* one publisher thread of the engine and the bridge's broadcast thread for
\* the same region, interleaved step by step
PubNext ==
    /\ \/ PubTake \/ PubFetchAdd \/ PubCopyFirst \/ PubCopySecond
       \/ PubStoreReady
       \/ BridgeLoadReady \/ BridgeLoadSeq \/ BridgeReadFirst
       \/ BridgeReadSecond \/ BridgePublish
    /\ UNCHANGED <<bookVars, snapshot, ringVars, harness, metrics_collector_,
                   restVars>>

SpecPublish == Init /\ [][PubNext]_vars

\* the publisher thread's round
PublisherThread ==
    PubTake \/ PubFetchAdd \/ PubCopyFirst \/ PubCopySecond \/ PubStoreReady

\* the bridge's broadcast thread's round
BridgeThread ==
    \/ BridgeLoadReady \/ BridgeLoadSeq \/ BridgeReadFirst
    \/ BridgeReadSecond \/ BridgePublish

\* Both threads are loops that sleep for a bounded time between rounds, and
\* the operating system schedules every thread that can run: the publisher
\* finishes the rounds it makes and the bridge keeps polling.
SpecPublishLive ==
    /\ SpecPublish
    /\ WF_pubVars(PublisherThread)
    /\ WF_pubVars(BridgeThread)

\* ------------------------------------- snapshots taken during add_order
\* entry.orders.push_back(order) on the level of the order's price, which
\* bids_[order.price] creates when the side has none
push_back_order(side, order) ==
    LET entry == IF order.price \in DOMAIN side /\ side[order.price].orders # <<>>
                 THEN side[order.price]
                 ELSE OrderBookEntry(order.price)
    IN MapPut(side, order.price, [entry EXCEPT !.orders = Append(@, order)])

\* entry.total_quantity += order.quantity
add_quantity(side, order) ==
    MapPut(side, order.price,
           [side[order.price] EXCEPT !.total_quantity = @ + order.quantity])

\* simulate_order_flow: OrderId id = next_order_id_.fetch_add(1), a
\* quantity of at least 1, Order order(id, price, quantity, side,
\* OrderType::LIMIT, "BTCUSD"); add_order up to entry.orders.push_back(order)
RaceBeginAddOrder ==
    \E price \in Prices, qty \in Quantities \ {0}, side \in OrderSides,
       tick \in Ticks :
        LET order == Order(harness.next_order_id_, price, qty, side, "LIMIT",
                           now + tick)
        IN /\ harness.pc = "idle"
           /\ harness.next_order_id_ <= MaxFlow
           /\ now + tick <= MaxTime
           /\ now' = now + tick
           /\ order_lookup_' = MapPut(order_lookup_, order.id, order)
           /\ bids_' = IF order.side = "BUY"
                       THEN push_back_order(bids_, order) ELSE bids_
           /\ asks_' = IF order.side = "BUY"
                       THEN asks_ ELSE push_back_order(asks_, order)
           /\ harness' = [harness EXCEPT !.pc = "push_back",
                                         !.order = order,
                                         !.next_order_id_ = @ + 1]
           /\ UNCHANGED <<trades, snapshot>>

\* add_order: entry.total_quantity += order.quantity
RaceAddQuantity ==
    /\ harness.pc = "push_back"
    /\ bids_' = IF harness.order.side = "BUY"
                THEN add_quantity(bids_, harness.order) ELSE bids_
    /\ asks_' = IF harness.order.side = "BUY"
                THEN asks_ ELSE add_quantity(asks_, harness.order)
    /\ harness' = [harness EXCEPT !.pc = "match"]
    /\ UNCHANGED <<order_lookup_, now, trades, snapshot>>

\* add_order: match_orders()
RaceMatch ==
    /\ harness.pc = "match"
    /\ Install(match_orders(Book))
    /\ harness' = [harness EXCEPT !.pc = "idle"]
    /\ UNCHANGED <<now, snapshot>>

\* the snapshot thread: auto snapshot = order_book_.get_snapshot(), which
\* takes no lock and runs wherever the matching thread stands
RaceGetSnapshot ==
    /\ snapshot' = get_snapshot(Book)
    /\ UNCHANGED <<bookVars, harness>>

RaceNext ==
    /\ RaceBeginAddOrder \/ RaceAddQuantity \/ RaceMatch \/ RaceGetSnapshot
    /\ UNCHANGED <<ringVars, pubVars, metrics_collector_, restVars>>

SpecRace == Init /\ [][RaceNext]_vars

\* ------------------------------------------------- the engine's harness
\* mutant: a Trade the ring refused is not counted as executed
trades_counted_if_pushed(result) == IF result THEN 1 ELSE 0

\* handle_trade: metrics_collector_.increment_trades_executed(), whatever
\* push returned
trades_counted(result) == 1

\* handle_trade drops the value push returns and MetricsCollector declares
\* no counter of refused Trades: the harness counts none
trades_dropped == 0

\* simulate_order_flow: id = next_order_id_.fetch_add(1), a quantity of at
\* least 1, order_book_.add_order(order).  match_orders hands every Trade to
\* the trade callback as it executes it; no other thread touches the book
\* here, so the callbacks are taken one by one after the book is installed.
HarnessAddOrder ==
    \E price \in Prices, qty \in Quantities \ {0}, side \in OrderSides :
        LET order == Order(harness.next_order_id_, price, qty, side, "LIMIT",
                           now)
            st == add_order(Book, order)
        IN /\ harness.pc = "idle"
           /\ harness.next_order_id_ <= MaxFlow
           /\ Install(st)
           /\ harness' = [harness EXCEPT
                             !.pc = IF st.trades = <<>> THEN "latency"
                                    ELSE "callback",
                             !.order = order,
                             !.next_order_id_ = @ + 1,
                             !.pending = st.trades,
                             !.emitted = @ + Len(st.trades)]
           /\ UNCHANGED <<now, snapshot, ringVars, pubVars,
                          metrics_collector_, restVars>>

\* handle_trade: shared_trades->push(trade), one step of push at a time
HarnessPush ==
    /\ harness.pc = "callback"
    /\ PushLoadTail \/ PushLoadHead \/ PushWrite \/ PushStoreTail
    /\ harness' = [harness EXCEPT
                      !.pc = IF push_pc' = "idle" THEN "count" ELSE "callback"]
    /\ UNCHANGED <<bookVars, snapshot, pubVars, metrics_collector_, restVars>>

\* handle_trade: metrics_collector_.increment_trades_executed(), and the
\* return to match_orders
HarnessCountTrade ==
    /\ harness.pc = "count"
    /\ metrics_collector_' =
          [metrics_collector_ EXCEPT
             !.trades_executed_ = @ + trades_counted(push_result)]
    /\ harness' = [harness EXCEPT
                      !.pending = Tail(@),
                      !.pc = IF Tail(harness.pending) = <<>> THEN "latency"
                             ELSE "callback"]
    /\ UNCHANGED <<bookVars, snapshot, ringVars, pubVars, restVars>>

\* metrics_collector_.record_latency(latency), latency being the time
\* add_order took
HarnessRecordLatency ==
    /\ harness.pc = "latency"
    /\ \E latency \in HarnessLatencies :
          metrics_collector_' = record_latency(metrics_collector_, latency)
    /\ harness' = [harness EXCEPT !.pc = "processed"]
    /\ UNCHANGED <<bookVars, snapshot, ringVars, pubVars, restVars>>

\* metrics_collector_.increment_orders_processed(), and the sleep
HarnessCountOrder ==
    /\ harness.pc = "processed"
    /\ metrics_collector_' =
          [metrics_collector_ EXCEPT !.orders_processed_ = @ + 1]
    /\ harness' = [harness EXCEPT !.pc = "idle"]
    /\ UNCHANGED <<bookVars, snapshot, ringVars, pubVars, restVars>>

\* the bridge in broadcast_trade_updates: pop, one step at a time
HarnessPop ==
    /\ PopLoadHead \/ PopLoadTail \/ PopRead \/ PopStoreHead
    /\ UNCHANGED <<bookVars, snapshot, pubVars, harness, metrics_collector_,
                   restVars>>

HarnessNext ==
    \/ HarnessAddOrder \/ HarnessPush \/ HarnessCountTrade
    \/ HarnessRecordLatency \/ HarnessCountOrder \/ HarnessPop

\* the engine with an empty book and an empty trade ring
HarnessStart ==
    /\ bids_ = EmptyMap
    /\ asks_ = EmptyMap
    /\ order_lookup_ = EmptyMap
    /\ now = 0
    /\ trades = <<>>
    /\ snapshot = NoSnapshot
    /\ RingOf(HarnessCapacity)
    /\ OtherInit

SpecHarness == HarnessStart /\ [][HarnessNext]_vars

\* ------------------------------------------- callers of the collector
\* the fields of the caller c that a step of record_latency assigns
CallerAt(c, pc, latency_ns, current_min, current_max) ==
    [callers EXCEPT ![c] = [pc |-> pc, latency_ns |-> latency_ns,
                            current_min |-> current_min,
                            current_max |-> current_max]]

\* record_latency(latency_ns) is called, and
\* total_latency_ns_.fetch_add(latency_ns)
RecordAddTotal(c) ==
    /\ callers[c].pc = "idle"
    /\ Len(recorded) < MaxSamples
    /\ \E latency_ns \in Latencies :
          /\ metrics_collector_' =
                [metrics_collector_ EXCEPT
                   !.total_latency_ns_ = @ + latency_ns]
          /\ callers' = CallerAt(c, "samples", latency_ns, 0, 0)
          /\ recorded' = Append(recorded, latency_ns)
    /\ UNCHANGED system_metrics

\* latency_samples_.fetch_add(1)
RecordAddSample(c) ==
    /\ callers[c].pc = "samples"
    /\ metrics_collector_' =
          [metrics_collector_ EXCEPT !.latency_samples_ = @ + 1]
    /\ callers' = [callers EXCEPT ![c].pc = "load_min"]
    /\ UNCHANGED <<recorded, system_metrics>>

\* uint64_t current_min = min_latency_ns_.load()
RecordLoadMin(c) ==
    /\ callers[c].pc = "load_min"
    /\ callers' = [callers EXCEPT
                      ![c].current_min = metrics_collector_.min_latency_ns_,
                      ![c].pc = "cas_min"]
    /\ UNCHANGED <<metrics_collector_, recorded, system_metrics>>

\* while (latency_ns < current_min &&
\*        !min_latency_ns_.compare_exchange_weak(current_min, latency_ns)) {}
\* one evaluation of the condition
RecordCasMin(c) ==
    /\ callers[c].pc = "cas_min"
    /\ IF callers[c].latency_ns < callers[c].current_min
       THEN LET cas == compare_exchange_weak(
                           metrics_collector_.min_latency_ns_,
                           callers[c].current_min, callers[c].latency_ns)
            IN  /\ metrics_collector_' =
                      [metrics_collector_ EXCEPT
                         !.min_latency_ns_ = cas.atomic]
                /\ callers' = [callers EXCEPT
                                  ![c].current_min = cas.expected,
                                  ![c].pc = IF cas.success THEN "load_max"
                                            ELSE "cas_min"]
       ELSE /\ callers' = [callers EXCEPT ![c].pc = "load_max"]
            /\ UNCHANGED metrics_collector_
    /\ UNCHANGED <<recorded, system_metrics>>

\* uint64_t current_max = max_latency_ns_.load()
RecordLoadMax(c) ==
    /\ callers[c].pc = "load_max"
    /\ callers' = [callers EXCEPT
                      ![c].current_max = metrics_collector_.max_latency_ns_,
                      ![c].pc = "cas_max"]
    /\ UNCHANGED <<metrics_collector_, recorded, system_metrics>>

\* while (latency_ns > current_max &&
\*        !max_latency_ns_.compare_exchange_weak(current_max, latency_ns)) {}
\* one evaluation of the condition
RecordCasMax(c) ==
    /\ callers[c].pc = "cas_max"
    /\ IF callers[c].latency_ns > callers[c].current_max
       THEN LET cas == compare_exchange_weak(
                           metrics_collector_.max_latency_ns_,
                           callers[c].current_max, callers[c].latency_ns)
            IN  /\ metrics_collector_' =
                      [metrics_collector_ EXCEPT
                         !.max_latency_ns_ = cas.atomic]
                /\ callers' = [callers EXCEPT
                                  ![c].current_max = cas.expected,
                                  ![c].pc = IF cas.success THEN "histogram"
                                            ELSE "cas_max"]
       ELSE /\ callers' = [callers EXCEPT ![c].pc = "histogram"]
            /\ UNCHANGED metrics_collector_
    /\ UNCHANGED <<recorded, system_metrics>>

\* "Update histogram", and the return
RecordHistogram(c) ==
    /\ callers[c].pc = "histogram"
    /\ metrics_collector_' =
          [metrics_collector_ EXCEPT
             !.latency_histogram_ = histogram_add(@, callers[c].latency_ns)]
    /\ callers' = CallerAt(c, "idle", 0, 0, 0)
    /\ UNCHANGED <<recorded, system_metrics>>

\* MetricsCollector::record_latency, one atomic operation per step
RecordLatency(c) ==
    \/ RecordAddTotal(c) \/ RecordAddSample(c) \/ RecordLoadMin(c)
    \/ RecordCasMin(c) \/ RecordLoadMax(c) \/ RecordCasMax(c)
    \/ RecordHistogram(c)

\* MetricsCollector::increment_orders_processed
IncrementOrdersProcessed ==
    /\ metrics_collector_.orders_processed_ < MaxCount
    /\ metrics_collector_' =
          [metrics_collector_ EXCEPT !.orders_processed_ = fetch_add(@, 1)]
    /\ UNCHANGED collectorVars

\* MetricsCollector::increment_trades_executed
IncrementTradesExecuted ==
    /\ metrics_collector_.trades_executed_ < MaxCount
    /\ metrics_collector_' =
          [metrics_collector_ EXCEPT !.trades_executed_ = fetch_add(@, 1)]
    /\ UNCHANGED collectorVars

\* MetricsCollector::get_current_metrics, called by the metrics thread at
\* any time.  Its loads are taken in one step: each counter is loaded once,
\* and the latency fields are compared with the recorded latencies only
\* when no thread is inside record_latency.
GetCurrentMetrics ==
    /\ system_metrics' =
          [returned |-> TRUE,
           metrics |-> get_current_metrics(metrics_collector_)]
    /\ UNCHANGED <<metrics_collector_, callers, recorded>>

MetricsNext ==
    /\ \/ \E c \in Callers : RecordLatency(c)
       \/ IncrementOrdersProcessed \/ IncrementTradesExecuted
       \/ GetCurrentMetrics
    /\ UNCHANGED <<bookVars, snapshot, ringVars, pubVars, harness, lifeVars,
                   hook>>

SpecMetrics == Init /\ [][MetricsNext]_vars

\* -------------------------------------------------- the dashboard's hook
\* useEffect(() => { connect(); ... }, [connect]) when the component mounts
HookMount ==
    /\ ~hook.mounted /\ ~hook.unmounted
    /\ hook' = [connect(hook) EXCEPT !.mounted = TRUE]

\* the browser opens the socket s and runs its onopen handler
SocketOpen(s) ==
    /\ hook.sockets[s] = "CONNECTING"
    /\ hook' = onopen([hook EXCEPT !.sockets[s] = "OPEN"])

\* the browser closes the socket s (the connection failed, the server went
\* away, or close() was called on it) and runs its onclose handler
SocketClose(s) ==
    /\ hook.sockets[s] \in {"CONNECTING", "OPEN", "CLOSING"}
    /\ hook' = onclose([hook EXCEPT
                           !.sockets[s] = "CLOSED",
                           !.lost = @ \/ hook.sockets[s] # "CLOSING"])

\* the timer t fires: reconnectAttemptsRef.current++; connect()
TimerFire(t) ==
    /\ hook.timers[t].state = "pending"
    /\ Len(hook.sockets) < MaxSockets
    /\ hook' = connect([hook EXCEPT !.timers[t].state = "fired",
                                    !.reconnectAttemptsRef = @ + 1])

\* the component calls the connect() the hook returned
HookConnect ==
    /\ hook.mounted
    /\ hook.calls < MaxCalls
    /\ Len(hook.sockets) < MaxSockets
    /\ hook' = [connect(hook) EXCEPT !.calls = @ + 1, !.stopped = FALSE]

\* the component calls the disconnect() the hook returned
HookDisconnect ==
    /\ hook.mounted
    /\ hook.calls < MaxCalls
    /\ hook' = [disconnect(hook) EXCEPT
                   !.calls = @ + 1, !.stopped = TRUE,
                   !.sockets_at_stop = Len(hook.sockets)]

\* the component unmounts: the effect's cleanup runs
HookUnmount ==
    /\ hook.mounted
    /\ hook' = [effect_cleanup(hook) EXCEPT
                   !.mounted = FALSE, !.unmounted = TRUE, !.stopped = TRUE,
                   !.sockets_at_stop = Len(hook.sockets)]

\* the component, the browser's sockets and its timers
HookNext ==
    /\ \/ HookMount \/ HookConnect \/ HookDisconnect \/ HookUnmount
       \/ \E s \in DOMAIN hook.sockets : SocketOpen(s) \/ SocketClose(s)
       \/ \E t \in DOMAIN hook.timers : TimerFire(t)
    /\ UNCHANGED <<bookVars, snapshot, ringVars, pubVars, harness,
                   metrics_collector_, lifeVars, collectorVars>>

SpecHook == Init /\ [][HookNext]_vars

\* ------------------------------------------------ start-up and shutdown
\* mutant: the loop does not read the flag
while_true(running) == TRUE

\* while (running_)
while_running(running) == running

\* mutant: the constructor's handler does not rethrow
ctor_catch_returns == "set_callback"

\* catch (const std::exception& e) { std::cerr << ...; throw; } in the
\* constructor: control leaves for the handler in main
ctor_catch == "main_catch"

\* SharedMemoryManager::create called for name in the engine's constructor:
\* shm_open, ftruncate and mmap succeed and the name exists, or one of them
\* fails and create throws (having unlinked the name if shm_open made it)
EngineCreate(at, name, then) ==
    /\ engine.pc = at
    /\ \E ok \in BOOLEAN :
         IF ok
         THEN /\ regions' = [regions EXCEPT ![name] = "present"]
              /\ engine' = [engine EXCEPT !.pc = then]
         ELSE /\ regions' = [regions EXCEPT ![name] = "absent"]
              /\ engine' = [engine EXCEPT !.pc = "ctor_catch",
                                          !.create_failed = TRUE]
    /\ UNCHANGED server

EngineCreateRegions ==
    \/ EngineCreate("create_orderbook", "/hft_orderbook", "create_metrics")
    \/ EngineCreate("create_metrics", "/hft_metrics", "create_trades")
    \/ EngineCreate("create_trades", "/hft_trades", "set_callback")

\* the handler in the constructor: the message on stderr, then throw
EngineCtorCatch ==
    /\ engine.pc = "ctor_catch"
    /\ engine' = [engine EXCEPT !.reported = TRUE, !.pc = ctor_catch]
    /\ UNCHANGED <<regions, server>>

\* the handler in main: the message on stderr and return 1
EngineMainCatch ==
    /\ engine.pc = "main_catch"
    /\ engine' = [engine EXCEPT !.reported = TRUE, !.exit_status = 1,
                                !.pc = "exited"]
    /\ UNCHANGED <<regions, server>>

\* order_book_.set_trade_callback(...), the constructor returns, and
\* g_engine = &engine
EngineConstructed ==
    /\ engine.pc = "set_callback"
    /\ engine' = [engine EXCEPT !.g_engine = TRUE, !.pc = "start_metrics"]
    /\ UNCHANGED <<regions, server>>

\* run: std::thread metrics_thread(...)
EngineStartMetrics ==
    /\ engine.pc = "start_metrics"
    /\ engine' = [engine EXCEPT !.metrics_thread = "test",
                                !.pc = "start_orderbook"]
    /\ UNCHANGED <<regions, server>>

\* run: std::thread orderbook_thread(...), then simulate_order_flow()
EngineStartOrderbook ==
    /\ engine.pc = "start_orderbook"
    /\ engine' = [engine EXCEPT !.orderbook_thread = "test",
                                !.pc = "flow_test"]
    /\ UNCHANGED <<regions, server>>

\* simulate_order_flow: while (running_)
EngineFlowTest ==
    /\ engine.pc = "flow_test"
    /\ engine' = [engine EXCEPT
                     !.pc = IF while_running(engine.running_)
                            THEN "flow_order" ELSE "join_metrics"]
    /\ UNCHANGED <<regions, server>>

\* simulate_order_flow: one order admitted, measured and counted, and the
\* sleep
EngineFlowOrder ==
    /\ engine.pc = "flow_order"
    /\ engine' = [engine EXCEPT !.admitted = TRUE, !.pc = "flow_test"]
    /\ UNCHANGED <<regions, server>>

\* run: metrics_thread.join(), which returns when the thread has ended
EngineJoinMetrics ==
    /\ engine.pc = "join_metrics"
    /\ engine.metrics_thread = "exited"
    /\ engine' = [engine EXCEPT !.metrics_thread = "joined",
                                !.pc = "join_orderbook"]
    /\ UNCHANGED <<regions, server>>

\* run: orderbook_thread.join()
EngineJoinOrderbook ==
    /\ engine.pc = "join_orderbook"
    /\ engine.orderbook_thread = "exited"
    /\ engine' = [engine EXCEPT !.orderbook_thread = "joined",
                                !.pc = "destructor"]
    /\ UNCHANGED <<regions, server>>

\* ~TradingEngine at the end of main's try block: running_ = false and
\* unlink of the three names
EngineDestructor ==
    /\ engine.pc = "destructor"
    /\ regions' = [n \in RegionNames |-> "absent"]
    /\ engine' = [engine EXCEPT !.running_ = FALSE, !.pc = "return"]
    /\ UNCHANGED server

\* main: return 0
EngineReturn ==
    /\ engine.pc = "return"
    /\ engine' = [engine EXCEPT !.exit_status = 0, !.pc = "exited"]
    /\ UNCHANGED <<regions, server>>

\* the main thread of the engine
EngineMain ==
    \/ EngineCreateRegions \/ EngineCtorCatch \/ EngineMainCatch
    \/ EngineConstructed \/ EngineStartMetrics \/ EngineStartOrderbook
    \/ EngineFlowTest \/ EngineFlowOrder \/ EngineJoinMetrics
    \/ EngineJoinOrderbook \/ EngineDestructor \/ EngineReturn

\* metrics_thread: while (running_) { update_metrics(); sleep }, where
\* update_metrics writes region /hft_metrics
MetricsThread ==
    /\ \/ /\ engine.metrics_thread = "test"
          /\ engine' = [engine EXCEPT
                           !.metrics_thread =
                               IF while_running(engine.running_)
                               THEN "publish" ELSE "exited"]
       \/ /\ engine.metrics_thread = "publish"
          /\ engine' = [engine EXCEPT
                           !.metrics_thread = "test",
                           !.wrote_unlinked =
                               @ \/ regions["/hft_metrics"] = "absent"]
    /\ UNCHANGED <<regions, server>>

\* orderbook_thread: while (running_) { get_snapshot; publish; sleep },
\* which writes region /hft_orderbook
OrderbookThread ==
    /\ \/ /\ engine.orderbook_thread = "test"
          /\ engine' = [engine EXCEPT
                           !.orderbook_thread =
                               IF while_running(engine.running_)
                               THEN "publish" ELSE "exited"]
       \/ /\ engine.orderbook_thread = "publish"
          /\ engine' = [engine EXCEPT
                           !.orderbook_thread = "test",
                           !.wrote_unlinked =
                               @ \/ regions["/hft_orderbook"] = "absent"]
    /\ UNCHANGED <<regions, server>>

\* SIGINT or SIGTERM: signal_handler, if (g_engine) g_engine->stop()
Signal ==
    /\ engine.g_engine
    /\ engine.running_
    /\ engine' = [engine EXCEPT !.running_ = FALSE]
    /\ UNCHANGED <<regions, server>>

\* SharedMemoryManager::open called for name in the bridge's constructor:
\* shm_open fails when the name does not exist, and shm_open or mmap may
\* fail when it does; open then throws
ServerOpen(at, name, then) ==
    /\ server.pc = at
    /\ \E ok \in BOOLEAN :
         IF ok /\ regions[name] = "present"
         THEN server' = [server EXCEPT !.pc = then]
         ELSE server' = [server EXCEPT !.pc = "ctor_catch",
                                       !.open_failed = TRUE]
    /\ UNCHANGED <<regions, engine>>

ServerOpenRegions ==
    \/ ServerOpen("open_orderbook", "/hft_orderbook", "open_metrics")
    \/ ServerOpen("open_metrics", "/hft_metrics", "open_trades")
    \/ ServerOpen("open_trades", "/hft_trades", "run")

\* the handler in the bridge's constructor: the message, then throw
ServerCtorCatch ==
    /\ server.pc = "ctor_catch"
    /\ server' = [server EXCEPT !.reported = TRUE, !.pc = "main_catch"]
    /\ UNCHANGED <<regions, engine>>

\* the handler in the bridge's main: the message and return 1
ServerMainCatch ==
    /\ server.pc = "main_catch"
    /\ server' = [server EXCEPT !.reported = TRUE, !.exit_status = 1,
                                !.pc = "exited"]
    /\ UNCHANGED <<regions, engine>>

\* WebSocketServer::run: the three broadcast threads are started
ServerRun ==
    /\ server.pc = "run"
    /\ server' = [server EXCEPT !.broadcasting = TRUE, !.pc = "serving"]
    /\ UNCHANGED <<regions, engine>>

\* the bridge process
ServerMain ==
    ServerOpenRegions \/ ServerCtorCatch \/ ServerMainCatch \/ ServerRun

LifeNext ==
    /\ EngineMain \/ MetricsThread \/ OrderbookThread \/ Signal
       \/ ServerMain
    /\ UNCHANGED <<bookVars, snapshot, ringVars, pubVars, harness,
                   metrics_collector_, collectorVars, hook>>

SpecEngine == Init /\ [][LifeNext]_vars

\* The operating system schedules every thread that can run: the main
\* thread and the two publisher threads each keep taking steps.  Nothing
\* is assumed about signals or about the bridge.
SpecEngineLive ==
    /\ SpecEngine
    /\ WF_lifeVars(EngineMain)
    /\ WF_lifeVars(MetricsThread)
    /\ WF_lifeVars(OrderbookThread)

\* ------------------------------------------------------------ properties
\* the trades emitted by the latest call, as a set
Emitted == {trades[k] : k \in 1..Len(trades)}

\* C1: whenever a call has returned, every bid level's price is strictly
\* less than every ask level's price (it holds for every call sequence,
\* the ones that reuse a live id included).
C1_BidsBelowAsks ==
    \A bp \in DOMAIN bids_, ap \in DOMAIN asks_ :
        /\ bids_[bp].price < asks_[ap].price
        /\ bp < ap

\* both sides are populated right after a call in which the matcher traded
C1_Witness ==
    /\ trades # <<>>
    /\ DOMAIN bids_ # {}
    /\ DOMAIN asks_ # {}

\* o rests at position x of the side and no other position has priority
\* over x: none at a better price, none earlier in the FIFO of x's price
BidPriority(side, o) ==
    \E x \in SidePositions(side) :
        /\ side[x[1]].orders[x[2]] = o
        /\ \A y \in SidePositions(side) :
              /\ ~(y[1] > x[1])
              /\ ~(y[1] = x[1] /\ y[2] < x[2])

AskPriority(side, o) ==
    \E x \in SidePositions(side) :
        /\ side[x[1]].orders[x[2]] = o
        /\ \A y \in SidePositions(side) :
              /\ ~(y[1] < x[1])
              /\ ~(y[1] = x[1] /\ y[2] < x[2])

\* C2: every emitted trade names the buy order and the sell order that had
\* priority on their side at the moment of the match: no live order on the
\* same side had a strictly better price, or the same price and an earlier
\* position in the level's FIFO.
C2_PriceTimePriority ==
    \A t \in Emitted :
        /\ t.buy_order_id = t.buy.id
        /\ t.sell_order_id = t.sell.id
        /\ BidPriority(t.bids, t.buy)
        /\ AskPriority(t.asks, t.sell)

\* a trade made while the bid side held two price levels, or two orders in
\* one level's FIFO: the matcher had a choice of buy order
C2_Witness ==
    \E t \in Emitted :
        /\ SideCount(t.bids) >= 2
        /\ t.quantity > 0
        /\ \/ Cardinality(DOMAIN t.bids) >= 2
           \/ \E p \in DOMAIN t.bids : Len(t.bids[p].orders) >= 2

\* of the two matched orders, the one with the earlier / later timestamp
Earlier(t) == IF t.buy.timestamp < t.sell.timestamp THEN t.buy ELSE t.sell
Later(t) == IF t.buy.timestamp < t.sell.timestamp THEN t.sell ELSE t.buy

\* C3: a trade between orders with different arrival timestamps is priced at
\* the limit price of the earlier (resting) order, never at the price of the
\* later (incoming) one.
C3_RestingOrderPrice ==
    \A t \in Emitted :
        t.buy.timestamp # t.sell.timestamp =>
            /\ t.price = Earlier(t).price
            /\ (t.buy.price # t.sell.price => t.price # Later(t).price)

\* a trade in which the buy order arrived first and the two prices differ
C3_Witness ==
    \E t \in Emitted :
        /\ t.buy.timestamp < t.sell.timestamp
        /\ t.buy.price # t.sell.price

\* C4 as stated: when the two matched orders carry equal arrival timestamps
\* the trade price is the buy order's price.
C4_Original ==
    \A t \in Emitted :
        t.buy.timestamp = t.sell.timestamp => t.price = t.buy.price

\* C4 as amended: when the two matched orders carry equal arrival timestamps
\* the trade price is the sell order's price.
C4_TiePriceIsSell ==
    \A t \in Emitted :
        t.buy.timestamp = t.sell.timestamp => t.price = t.sell.price

\* a trade between two orders with the same timestamp and different prices
C4_Witness ==
    \E t \in Emitted :
        /\ t.buy.timestamp = t.sell.timestamp
        /\ t.buy.price # t.sell.price

\* C5 as stated: every emitted trade has quantity equal to the minimum of the
\* two matched orders' remaining quantities, and strictly greater than 0,
\* for every Quantity add_order and modify_order accept (0 included).
C5_Original ==
    \A t \in Emitted :
        /\ t.quantity = Min(t.buy.quantity, t.sell.quantity)
        /\ t.quantity > 0

\* the sum of the quantities of the trades of a log that name an id
RECURSIVE QuantityNaming(_, _)
QuantityNaming(log, id) ==
    IF log = <<>> THEN 0
    ELSE (IF Head(log).buy_order_id = id \/ Head(log).sell_order_id = id
          THEN Head(log).quantity ELSE 0) + QuantityNaming(Tail(log), id)

\* the ids in use: indexed, or resting on the book
IdsOnBook == {o.id : o \in SideOrders(bids_) \cup SideOrders(asks_)}
LiveIds == DOMAIN order_lookup_ \cup IdsOnBook

\* C6 as stated: the trades that name an id never sum to more than the
\* quantity the order was submitted with in add_order.  Stated of the calls
\* add_order(id, q); modify_order(id, p, q2); add_order(other, ...) made from
\* the current book with two ids that are not in use.
C6_Original ==
    \A id \in OrderIds \ LiveIds, other \in OrderIds \ LiveIds :
      \A p \in Prices, q \in Quantities, q2 \in Quantities, q3 \in Quantities :
        id # other =>
          LET added == add_order(Book, Order(id, p, q, "BUY", "LIMIT", now))
              modified == modify_order(added, id, p, q2, now)
              crossed == add_order(modified,
                                   Order(other, p, q3, "SELL", "LIMIT", now))
          IN QuantityNaming(crossed.trades, id) <= q

\* C6 as amended: for every order placed on the book, by add_order or by
\* modify_order re-adding it with new_quantity, the quantities of the trades
\* that fill it never sum to more than the quantity it was placed with.
C6_FillsWithinPlacedQuantity ==
    /\ \A t \in Emitted :
          /\ t.buy.traded + t.quantity <= t.buy.placed
          /\ t.sell.traded + t.quantity <= t.sell.placed
    /\ \A o \in SideOrders(bids_) \cup SideOrders(asks_) :
          o.traded <= o.placed

\* a trade that completes an order which an earlier trade had partly filled
C6_Witness ==
    \E t \in Emitted :
        /\ t.quantity > 0
        /\ t.buy.traded > 0
        /\ t.buy.traded + t.quantity = t.buy.placed

\* the sum of the remaining quantities of a level's orders
RECURSIVE SumQuantity(_)
SumQuantity(orders) ==
    IF orders = <<>> THEN 0
    ELSE Head(orders).quantity + SumQuantity(Tail(orders))

LevelSound(level) ==
    /\ level.orders # <<>>
    /\ level.total_quantity = SumQuantity(level.orders)
    /\ level.total_quantity > 0

\* C7 as stated: every level that exists has an aggregate equal to the sum of
\* the remaining quantities of its orders, and that aggregate is strictly
\* positive (no empty level, no zero aggregate).
C7_Original ==
    /\ \A p \in DOMAIN bids_ : LevelSound(bids_[p])
    /\ \A p \in DOMAIN asks_ : LevelSound(asks_[p])

\* how many resting orders carry the id
Occurrences(id) ==
    Cardinality({x \in SidePositions(bids_) : bids_[x[1]].orders[x[2]].id = id})
  + Cardinality({x \in SidePositions(asks_) : asks_[x[1]].orders[x[2]].id = id})

\* C8 as stated: the index holds an id iff an order with that id rests on the
\* book; the entry's side and price name the level that holds it; the id
\* appears exactly once across all level sequences.
C8_Original ==
    /\ DOMAIN order_lookup_ = IdsOnBook
    /\ \A id \in DOMAIN order_lookup_ :
          LET e == order_lookup_[id]
              side == IF e.side = "BUY" THEN bids_ ELSE asks_
          IN /\ e.price \in DOMAIN side
             /\ \E i \in 1..Len(side[e.price].orders) :
                    side[e.price].orders[i].id = id
             /\ Occurrences(id) = 1

\* C9 as stated: add_order with an id that is already live is rejected: the
\* book, its levels and the index are left unchanged and no trade is emitted.
C9_Original ==
    \A id \in DOMAIN order_lookup_, p \in Prices, q \in Quantities,
       side \in OrderSides :
        LET st == add_order(Book, Order(id, p, q, side, "LIMIT", now))
        IN /\ st.bids_ = bids_
           /\ st.asks_ = asks_
           /\ st.order_lookup_ = order_lookup_
           /\ st.trades = <<>>

\* C10: cancel_order is idempotent: from every reachable book and for every
\* id, cancelling twice leaves the same sides, levels, aggregates and index
\* as cancelling once.
C10_CancelIdempotent ==
    \A id \in OrderIds :
        cancel_order(cancel_order(Book, id), id) = cancel_order(Book, id)

\* a book on which cancel_order has work to do: an indexed id whose order
\* shares its level with another order, so that the level survives the cancel
C10_Witness ==
    \E id \in DOMAIN order_lookup_ :
        /\ cancel_order(Book, id) # Book
        /\ BookCount(cancel_order(Book, id)) = BookCount(Book) - 1
        /\ \E p \in DOMAIN bids_ : Len(bids_[p].orders) >= 2

\* the sequence without its i-th element
Without(orders, i) ==
    SubSeq(orders, 1, i - 1) \o SubSeq(orders, i + 1, Len(orders))

\* side2 is side with exactly one order of this id taken out of the level at
\* price p: the level keeps its other orders in order and its aggregate
\* drops by that order's remaining quantity, or the level is gone when the
\* order was alone; every other level is the same
OneOrderRemoved(side, side2, p, id) ==
    /\ p \in DOMAIN side
    /\ \A r \in DOMAIN side \ {p} : r \in DOMAIN side2 /\ side2[r] = side[r]
    /\ DOMAIN side2 \subseteq DOMAIN side
    /\ \E i \in 1..Len(side[p].orders) :
          /\ side[p].orders[i].id = id
          /\ IF Len(side[p].orders) = 1
             THEN p \notin DOMAIN side2
             ELSE /\ p \in DOMAIN side2
                  /\ side2[p].price = side[p].price
                  /\ side2[p].orders = Without(side[p].orders, i)
                  /\ side2[p].total_quantity =
                        side[p].total_quantity - side[p].orders[i].quantity

\* C11: cancel_order or modify_order with an id the index does not hold
\* leaves both sides, every level and the index unchanged and emits no
\* trade; cancel_order of an indexed id emits no trade, removes the id from
\* the index and changes nothing on the book except that one order with
\* this id leaves its level (and the level goes when it becomes empty).
C11_CancelModifyFrame ==
    \A id \in OrderIds :
        IF id \notin DOMAIN order_lookup_
        THEN /\ cancel_order(Book, id) = Book
             /\ \A p \in Prices, q \in Quantities, tick \in Ticks :
                    modify_order(Book, id, p, q, now + tick) = Book
        ELSE LET st == cancel_order(Book, id)
                 e == order_lookup_[id]
             IN /\ st.trades = <<>>
                /\ st.order_lookup_ = MapErase(order_lookup_, id)
                /\ IF e.side = "BUY"
                   THEN /\ st.asks_ = asks_
                        /\ OneOrderRemoved(bids_, st.bids_, e.price, id)
                   ELSE /\ st.bids_ = bids_
                        /\ OneOrderRemoved(asks_, st.asks_, e.price, id)

\* a book with an indexed id whose order shares its ask level with another
\* order, and an id that is neither indexed nor resting
C11_Witness ==
    /\ \E id \in DOMAIN order_lookup_ :
          /\ order_lookup_[id].side = "SELL"
          /\ order_lookup_[id].price \in DOMAIN asks_
          /\ Len(asks_[order_lookup_[id].price].orders) >= 2
    /\ OrderIds \ LiveIds # {}

\* C12: for every reachable book and indexed id, modify_order(id, p, q) ends
\* with the same sides, the same index and the same sequence of trades as
\* cancel_order(id) followed by add_order of an order with the same id, side
\* and type, price p, quantity q and the timestamp modify_order stamps.
C12_ModifyIsCancelThenAdd ==
    \A id \in DOMAIN order_lookup_, p \in Prices, q \in Quantities,
       tick \in Ticks :
        LET e == order_lookup_[id]
        IN modify_order(Book, id, p, q, now + tick)
           = add_order(cancel_order(Book, id),
                       Order(id, p, q, e.side, e.type, now + tick))

\* a book on which modifying an indexed order to a new price makes it cross
\* the other side and trade
C12_Witness ==
    \E id \in DOMAIN order_lookup_, p \in Prices, q \in Quantities :
        LET st == modify_order(Book, id, p, q, now)
        IN /\ p # order_lookup_[id].price
           /\ st.trades # <<>>
           /\ st.trades[1].quantity > 0
           /\ BookCount(st) < BookCount(Book)

\* the ids of a level's orders, front first
QueueIds(orders) == [i \in 1..Len(orders) |-> orders[i].id]

\* the orders of a level rest in arrival order
ArrivalOrder(level) ==
    \A i \in 1..Len(level.orders), j \in 1..Len(level.orders) :
        i < j => level.orders[i].timestamp <= level.orders[j].timestamp

\* C13: within every price level the orders rest in arrival order; after
\* modify_order the modified order is the last one of the level at its new
\* price whenever that level exists, the price and quantity being changed or
\* not; and on a book holding just two buys [a, b] at one price,
\* modify_order(a, same price, same quantity) leaves the queue [b, a], so
\* that a crossing sell trades with b first.
C13_ModifyLosesPriority ==
    /\ \A p \in DOMAIN bids_ : ArrivalOrder(bids_[p])
    /\ \A p \in DOMAIN asks_ : ArrivalOrder(asks_[p])
    /\ \A id \in DOMAIN order_lookup_, p \in Prices, q \in Quantities,
          tick \in Ticks :
          LET e == order_lookup_[id]
              st == modify_order(Book, id, p, q, now + tick)
              side == IF e.side = "BUY" THEN st.bids_ ELSE st.asks_
          IN p \in DOMAIN side =>
               LET last == side[p].orders[Len(side[p].orders)]
               IN /\ last.id = id
                  /\ last.timestamp = now + tick
                  /\ last.price = p
                  /\ last.quantity <= q
    /\ \A p \in DOMAIN bids_ :
          LET orders == bids_[p].orders
              a == orders[1]
              b == orders[2]
          IN (/\ Len(orders) = 2
              /\ a.id # b.id
              /\ DOMAIN order_lookup_ = {a.id, b.id}
              /\ DOMAIN bids_ = {p}
              /\ asks_ = EmptyMap)
             => \A tick \in Ticks, other \in OrderIds \ {a.id, b.id},
                   q \in 1..MaxQty :
                  LET st == modify_order(Book, a.id, p, a.quantity, now + tick)
                      hit == add_order(st, Order(other, p, q, "SELL", "LIMIT",
                                                 now + tick))
                  IN /\ QueueIds(st.bids_[p].orders) = <<b.id, a.id>>
                     /\ st.trades = <<>>
                     /\ hit.trades # <<>>
                     /\ hit.trades[1].buy_order_id = b.id

\* the book holds just two buys, with different ids and positive quantities,
\* at one price, both indexed and the first earlier than the second
C13_Witness ==
    \E p \in DOMAIN bids_ :
        /\ Len(bids_[p].orders) = 2
        /\ bids_[p].orders[1].id # bids_[p].orders[2].id
        /\ bids_[p].orders[1].id \in DOMAIN order_lookup_
        /\ bids_[p].orders[1].timestamp < bids_[p].orders[2].timestamp
        /\ bids_[p].orders[1].quantity > 0
        /\ bids_[p].orders[2].quantity > 0
        /\ DOMAIN order_lookup_
              = {bids_[p].orders[1].id, bids_[p].orders[2].id}
        /\ DOMAIN bids_ = {p}
        /\ asks_ = EmptyMap

\* the ids named by the trades of a log
IdsNamed(log) ==
    {log[k].buy_order_id : k \in 1..Len(log)}
        \cup {log[k].sell_order_id : k \in 1..Len(log)}

\* the ids of the orders resting on the two sides of a book
IdsResting(st) == {o.id : o \in SideOrders(st.bids_) \cup SideOrders(st.asks_)}

\* C14 as stated: an order that was fully filled, or whose cancel_order has
\* returned, is absent from the index and from the book, and no trade of a
\* later call names its id unless an order with that id is admitted again;
\* a buy cancelled before a crossing sell arrives produces no trade and the
\* sell rests on the ask side with its full quantity.
C14_Original ==
    /\ \A t \in Emitted :
          /\ t.buy.quantity = t.quantity => t.buy.id \notin LiveIds
          /\ t.sell.quantity = t.quantity => t.sell.id \notin LiveIds
    /\ \A id \in OrderIds :
          LET st == cancel_order(Book, id)
          IN /\ id \notin DOMAIN st.order_lookup_
             /\ id \notin IdsResting(st)
             /\ \A other \in OrderIds \ {id}, p \in Prices,
                   q \in Quantities, side \in OrderSides :
                   /\ id \notin IdsNamed(
                          add_order(st, Order(other, p, q, side, "LIMIT",
                                              now)).trades)
                   /\ id \notin IdsNamed(modify_order(st, other, p, q,
                                                      now).trades)
    /\ (bids_ = EmptyMap /\ asks_ = EmptyMap /\ order_lookup_ = EmptyMap)
          => \A id \in OrderIds : \A other \in OrderIds \ {id},
                p \in Prices, q \in Quantities, q2 \in Quantities :
                LET bought == add_order(Book, Order(id, p, q, "BUY", "LIMIT",
                                                    now))
                    sold == add_order(cancel_order(bought, id),
                                      Order(other, p, q2, "SELL", "LIMIT",
                                            now))
                IN /\ sold.trades = <<>>
                   /\ sold.bids_ = EmptyMap
                   /\ DOMAIN sold.asks_ = {p}
                   /\ sold.asks_[p].total_quantity = q2
                   /\ QueueIds(sold.asks_[p].orders) = <<other>>

\* cancel_order called once for every id of a set
RECURSIVE CancelAll(_, _)
CancelAll(st, ids) ==
    IF ids = {} THEN st
    ELSE LET id == CHOOSE x \in ids : TRUE
         IN CancelAll(cancel_order(st, id), ids \ {id})

\* C15 as stated: from every reachable book, cancel_order called once for
\* every live id leaves no bid level, no ask level and an empty index.
C15_Original ==
    LET st == CancelAll(Book, LiveIds)
    IN /\ st.bids_ = EmptyMap
       /\ st.asks_ = EmptyMap
       /\ st.order_lookup_ = EmptyMap

\* the listed levels are those of the side, each with the level's aggregate
\* and number of orders
LevelsOf(listed, side) ==
    \A i \in 1..Len(listed) :
        /\ listed[i].price \in DOMAIN side
        /\ listed[i].quantity = side[listed[i].price].total_quantity
        /\ listed[i].order_count = Len(side[listed[i].price].orders)

\* C16: get_snapshot on a book no call is changing returns bid_count =
\* min(20, bid levels) and ask_count = min(20, ask levels); the listed bids
\* are the bid_count highest-priced bid levels in strictly descending price
\* order, the listed asks the ask_count lowest-priced ask levels in strictly
\* ascending order, each with its level's aggregate quantity and number of
\* orders.
C16_SnapshotBestLevels ==
    snapshot.taken =>
      /\ snapshot.bid_count = Min(MAX_BOOK_LEVELS, Cardinality(DOMAIN bids_))
      /\ snapshot.ask_count = Min(MAX_BOOK_LEVELS, Cardinality(DOMAIN asks_))
      /\ Len(snapshot.bids) = snapshot.bid_count
      /\ Len(snapshot.asks) = snapshot.ask_count
      /\ \A i \in 1..Len(snapshot.bids), j \in 1..Len(snapshot.bids) :
            i < j => snapshot.bids[i].price > snapshot.bids[j].price
      /\ \A i \in 1..Len(snapshot.asks), j \in 1..Len(snapshot.asks) :
            i < j => snapshot.asks[i].price < snapshot.asks[j].price
      /\ {snapshot.bids[i].price : i \in 1..Len(snapshot.bids)}
            = {p \in DOMAIN bids_ :
                 Cardinality({r \in DOMAIN bids_ : r > p})
                     < snapshot.bid_count}
      /\ {snapshot.asks[i].price : i \in 1..Len(snapshot.asks)}
            = {p \in DOMAIN asks_ :
                 Cardinality({r \in DOMAIN asks_ : r < p})
                     < snapshot.ask_count}
      /\ LevelsOf(snapshot.bids, bids_)
      /\ LevelsOf(snapshot.asks, asks_)

\* a snapshot of a book with more than 20 bid levels and fewer than 20 ask
\* levels, one of them holding two orders
C16_Witness ==
    /\ snapshot.taken
    /\ Cardinality(DOMAIN bids_) > MAX_BOOK_LEVELS
    /\ Cardinality(DOMAIN asks_) \in 2..(MAX_BOOK_LEVELS - 1)
    /\ \E i \in 1..Len(snapshot.asks) : snapshot.asks[i].order_count = 2

\* C17 as stated: a Market order is matched as if its price were extremal (a
\* Market buy with a positive quantity trades whenever an ask rests, a
\* Market sell whenever a bid rests) and its unmatched remainder is
\* discarded: after add_order returns no Market order rests on the book or
\* is held by the index.
C17_Original ==
    \A id \in OrderIds \ LiveIds, p \in Prices, q \in 1..MaxQty,
       side \in OrderSides :
        LET st == add_order(Book, Order(id, p, q, side, "MARKET", now))
            opposite == IF side = "BUY" THEN asks_ ELSE bids_
        IN /\ opposite # EmptyMap => st.trades # <<>>
           /\ \A o \in SideOrders(st.bids_) \cup SideOrders(st.asks_) :
                  o.type # "MARKET"
           /\ \A i \in DOMAIN st.order_lookup_ :
                  st.order_lookup_[i].type # "MARKET"

\* C18 as stated: a Stop order is accepted by add_order and never takes part
\* in matching: no trade names its id, neither in the call that admits it
\* nor when a later order arrives at a crossing price.
C18_Original ==
    \A id \in OrderIds \ LiveIds, p \in Prices, q \in 1..MaxQty,
       side \in OrderSides :
        LET st == add_order(Book, Order(id, p, q, side, "STOP", now))
        IN /\ id \notin IdsNamed(st.trades)
           /\ \A other \in OrderIds \ (LiveIds \cup {id}),
                 p2 \in Prices, q2 \in 1..MaxQty :
                 id \notin IdsNamed(
                     add_order([st EXCEPT !.trades = <<>>],
                               Order(other, p2, q2,
                                     IF side = "BUY" THEN "SELL" ELSE "BUY",
                                     "LIMIT", now)).trades)

\* a trade as the callback sees it
Callback(t) ==
    [buy_order_id |-> t.buy_order_id, sell_order_id |-> t.sell_order_id,
     price |-> t.price, quantity |-> t.quantity]

\* the book of the walk-the-book scenario: one bid of quantity 5 at 10000,
\* one bid of quantity 5 at 9999, no ask, and the two bids indexed
WalkBook ==
    /\ asks_ = EmptyMap
    /\ DOMAIN bids_ = {9999, 10000}
    /\ \A p \in DOMAIN bids_ :
          /\ bids_[p].total_quantity = 5
          /\ Len(bids_[p].orders) = 1
          /\ bids_[p].orders[1].quantity = 5
          /\ bids_[p].orders[1].timestamp <= now
    /\ bids_[9999].orders[1].id # bids_[10000].orders[1].id
    /\ DOMAIN order_lookup_
          = {bids_[9999].orders[1].id, bids_[10000].orders[1].id}

\* add_order of a Sell at 9999 with quantity 8 that arrives after both bids
WalkSell(id) ==
    add_order(Book, Order(id, 9999, 8, "SELL", "LIMIT", now + 1))

\* the two trades of the scenario: 5 at 10000 against the best bid, then 3 at
\* 9999 against the next one
WalkTrades(id, log) ==
    /\ Len(log) = 2
    /\ Callback(log[1]) = [buy_order_id |-> bids_[10000].orders[1].id,
                           sell_order_id |-> id, price |-> 10000,
                           quantity |-> 5]
    /\ Callback(log[2]) = [buy_order_id |-> bids_[9999].orders[1].id,
                           sell_order_id |-> id, price |-> 9999,
                           quantity |-> 3]

\* C19 as stated: with bids of quantity 5 at 10000 and 5 at 9999 resting,
\* add_order of a Sell at 9999 with quantity 8 emits exactly two trades,
\* quantity 5 at 10000 and then quantity 3 at 9999, and afterwards the book
\* has no bid level and no ask level.
C19_Original ==
    WalkBook =>
        \A id \in OrderIds \ LiveIds :
            /\ WalkTrades(id, WalkSell(id).trades)
            /\ WalkSell(id).bids_ = EmptyMap
            /\ WalkSell(id).asks_ = EmptyMap

\* C19 as amended: the Sell, stamped later than both bids, emits exactly the
\* two trades, quantity 5 at 10000 and then quantity 3 at 9999, and
\* afterwards the book has no ask level and one bid level: the bid at 9999
\* with its remaining quantity 2.
C19_WalkLeavesTwoAtLowerBid ==
    WalkBook =>
        \A id \in OrderIds \ LiveIds :
            LET st == WalkSell(id)
            IN /\ WalkTrades(id, st.trades)
               /\ st.asks_ = EmptyMap
               /\ DOMAIN st.bids_ = {9999}
               /\ st.bids_[9999].total_quantity = 2
               /\ Len(st.bids_[9999].orders) = 1
               /\ st.bids_[9999].orders[1].id = bids_[9999].orders[1].id
               /\ st.bids_[9999].orders[1].quantity = 2
               /\ DOMAIN st.order_lookup_ = {bids_[9999].orders[1].id}

\* the scenario's book has been built and an id is free for the Sell
C19_Witness ==
    /\ WalkBook
    /\ OrderIds \ LiveIds # {}
    /\ WalkSell(CHOOSE id \in OrderIds \ LiveIds : TRUE).trades # <<>>

\* C20: with one producer in push and one consumer in pop, interleaved in
\* every way, the producer never writes a slot that holds a Trade not yet
\* popped, nor the slot the consumer is reading; a push that finds the ring
\* full returns false and leaves head, tail and every slot unchanged; head
\* and tail stay in [0, capacity).
C20_RingSafety ==
    /\ [](/\ head \in Slots
          /\ tail \in Slots
          /\ push_pc = "write" => current_tail \notin unread
          /\ ~(push_pc = "write" /\ pop_pc = "read"
                 /\ current_tail = current_head))
    /\ [][(push_pc = "check" /\ next_tail = head /\ push_pc' # "check")
            => (/\ push_pc' = "idle"
                /\ push_result' = FALSE
                /\ UNCHANGED <<head, tail, ring>>)]_vars

\* the producer is writing one slot while the consumer is reading another,
\* after the indices have wrapped around and a push has found the ring full
C20_Witness ==
    /\ push_pc = "write"
    /\ pop_pc = "read"
    /\ pushed > RingCapacity
    /\ current_tail < current_head
    /\ push_result = FALSE

\* a is an initial segment of b
IsPrefix(a, b) == Len(a) <= Len(b) /\ SubSeq(b, 1, Len(a)) = a

\* s is strictly increasing
Increasing(s) == \A i, j \in 1..Len(s) : i < j => s[i] < s[j]

\* C21: with one producer and one consumer interleaved in every way, the
\* Trades returned by successful pops are, value for value and in order, an
\* initial segment of the Trades whose push returned true, which are in the
\* order the producer pushed them (so none is popped twice, reordered or
\* invented); a pop that finds the ring empty returns false and leaves head
\* and tail unchanged.
C21_PopsArePrefixOfPushes ==
    /\ [](/\ IsPrefix(popped, accepted)
          /\ Increasing(accepted)
          /\ \A i \in 1..Len(accepted) : accepted[i] \in 1..pushed)
    /\ [][(pop_pc = "check" /\ current_head = tail /\ pop_pc' # "check")
            => (/\ pop_pc' = "idle"
                /\ pop_result' = FALSE
                /\ UNCHANGED <<head, tail, ring, popped>>)]_vars

\* pops have returned Trades from both sides of the wrap-around, a push
\* between them was refused, and the latest pop found the ring empty
C21_Witness ==
    /\ Len(popped) > RingCapacity
    /\ Len(accepted) < pushed
    /\ popped = accepted
    /\ pop_pc = "idle"
    /\ pop_result = FALSE

\* while (shared_trades->pop(trade)) with no push in between: the Trades
\* the consumer takes from the slots h up to t
RECURSIVE Drain(_, _)
Drain(h, t) ==
    IF h = t THEN <<>> ELSE <<ring[h]>> \o Drain((h + 1) % capacity, t)

\* no pop has returned a Trade and none is under way
NoConsumer == popped = <<>> /\ pop_pc = "idle"

\* C22, as stated: with no consumer the first N pushes into a ring of N
\* slots return true and every later one false, and the Trades popped
\* afterwards are the first N pushed, in order.
C22_Original ==
    (NoConsumer /\ push_pc = "idle")
        => /\ accepted = FirstPushes(Min(pushed, capacity))
           /\ pushed > 0 => push_result = (pushed <= capacity)
           /\ Drain(head, tail) = accepted

\* C22, corrected: with no consumer the first N - 1 pushes into a ring of
\* N slots return true and every later one false, and the Trades popped
\* afterwards are the first N - 1 pushed, in order (with N = 4 and 6
\* Trades produced, the first 3).
C22_DropNewestKeepsAllButOneSlot ==
    (NoConsumer /\ push_pc = "idle")
        => /\ accepted = FirstPushes(Min(pushed, capacity - 1))
           /\ pushed > 0 => push_result = (pushed <= capacity - 1)
           /\ Drain(head, tail) = accepted

\* six Trades have been pushed into the ring of four slots with no consumer
C22_Witness ==
    /\ NoConsumer
    /\ push_pc = "idle"
    /\ capacity = RingCapacity
    /\ pushed = RingCapacity + MaxOverflow
    /\ push_result = FALSE
    /\ Drain(head, tail) = FirstPushes(RingCapacity - 1)

\* C23, as stated: the ring has 1024 slots and both indices are computed
\* modulo 1024.
C23_Original ==
    /\ [](DOMAIN ring = 0..1023)
    /\ [][/\ tail' # tail => tail' = (tail + 1) % 1024
          /\ head' # head => head' = (head + 1) % 1024]_vars

\* C23, corrected: the ring has 1000 slots and both indices are computed
\* modulo 1000.
C23_RingHasThousandSlots ==
    /\ [](/\ DOMAIN ring = 0..999
          /\ head \in 0..999
          /\ tail \in 0..999)
    /\ [][/\ tail' # tail => tail' = (tail + 1) % 1000
          /\ head' # head => head' = (head + 1) % 1000]_vars

\* both indices have gone around the end of the array
C23_Witness ==
    /\ capacity = MAX_TRADES
    /\ pushed > MAX_TRADES
    /\ tail = 1
    /\ head = 0

\* the broadcasts made so far, as a set of positions
Broadcasts == 1..Len(bridge.broadcasts)

\* C24, as stated: every payload the bridge broadcasts is, member for
\* member, one payload the publisher wrote in full, never a mix of two
\* publications.
C24_Original ==
    \A i \in Broadcasts :
        \E n \in 1..MaxPublications : bridge.broadcasts[i].payload = <<n, n>>

\* C25: the sequence number never decreases and is one more after each
\* publication (so it counts the publications made), and the sequence values
\* at which the bridge broadcasts are strictly increasing, so there is at
\* most one broadcast per value and none for a value lower than one
\* already broadcast.
C25_SequenceCountsPublications ==
    /\ [](/\ publisher.pc = "idle"
                => shared_ob.sequence_number = publisher.published
          /\ \A i, j \in Broadcasts :
                i < j => bridge.broadcasts[i].seq < bridge.broadcasts[j].seq)
    /\ [][\/ shared_ob'.sequence_number = shared_ob.sequence_number
          \/ /\ shared_ob'.sequence_number = shared_ob.sequence_number + 1
             /\ publisher.pc = "seq"]_vars

\* the bridge has broadcast at two sequence values with a publication it
\* never broadcast in between
C25_Witness ==
    /\ Len(bridge.broadcasts) = 2
    /\ bridge.broadcasts[1].seq = 1
    /\ bridge.broadcasts[2].seq = MaxPublications
    /\ publisher.published = MaxPublications

\* C26, as stated: a snapshot taken while the matching thread is inside
\* add_order never shows a bid price greater than or equal to an ask price,
\* and never a level of a half-applied insert (one that counts more orders
\* than it holds quantity, every order having a quantity of at least 1).
C26_Original ==
    snapshot.taken =>
        /\ \A i \in 1..snapshot.bid_count, j \in 1..snapshot.ask_count :
                snapshot.bids[i].price < snapshot.asks[j].price
        /\ \A i \in 1..snapshot.bid_count :
                snapshot.bids[i].order_count <= snapshot.bids[i].quantity
        /\ \A j \in 1..snapshot.ask_count :
                snapshot.asks[j].order_count <= snapshot.asks[j].quantity

\* the matching thread is between two orders
BetweenOrders == harness.pc = "idle"

\* C27, as stated: whenever the matching thread is between two orders, the
\* number of Trades emitted is the number pushed successfully plus the
\* number the harness has counted as dropped.
C27_Original ==
    BetweenOrders => harness.emitted = Len(accepted) + trades_dropped

\* C28: whenever the matching thread is between two orders,
\* orders_processed is the number of orders admitted, the number of latency
\* samples equals orders_processed, and trades_executed is the number of
\* Trades handed to the callback, accepted by the ring or not.
C28_CountersMatchOrdersAndTrades ==
    BetweenOrders =>
        /\ metrics_collector_.orders_processed_ = harness.next_order_id_ - 1
        /\ metrics_collector_.latency_samples_
              = metrics_collector_.orders_processed_
        /\ metrics_collector_.trades_executed_ = harness.emitted

\* three orders are done, one of them traded twice, and the ring refused
\* one of the two Trades
C28_Witness ==
    /\ BetweenOrders
    /\ metrics_collector_.orders_processed_ = 3
    /\ harness.emitted = 2
    /\ Len(accepted) = 1
    /\ pushed = 2

\* both publisher threads have ended and run() has joined them
BothJoined ==
    engine.metrics_thread = "joined" /\ engine.orderbook_thread = "joined"

\* the engine has unlinked the three names
Unlinked == engine.pc \in {"return", "exited"} /\ ~engine.create_failed

\* C29: once the running flag is false, the order-admission loop and both
\* publisher loops eventually exit and run() joins both publisher threads;
\* the names are unlinked only after both threads have been joined, and no
\* publisher writes to a region whose name has been unlinked.
C29_ShutdownJoinsThenUnlinks ==
    /\ (~engine.running_) ~>
          (BothJoined /\ engine.pc \notin {"flow_test", "flow_order"})
    /\ [](Unlinked => BothJoined)
    /\ [](~engine.wrote_unlinked)

\* a signal stopped an engine that had admitted orders, and the engine has
\* joined its threads, unlinked the names and returned 0
C29_Witness ==
    /\ engine.admitted
    /\ engine.pc = "exited"
    /\ engine.exit_status = 0
    /\ BothJoined
    /\ \A n \in RegionNames : regions[n] = "absent"

\* C30: when creating a region fails the engine reports it, starts no
\* publisher thread, admits no order and never exits with status 0, its
\* exit status being 1; when opening a region fails the bridge broadcasts
\* nothing and its exit status is 1.
C30_FailedStartRefuses ==
    /\ engine.create_failed =>
          /\ engine.metrics_thread = "none"
          /\ engine.orderbook_thread = "none"
          /\ ~engine.admitted
          /\ engine.exit_status # 0
          /\ engine.pc = "exited"
                => engine.reported /\ engine.exit_status = 1
    /\ server.open_failed =>
          /\ ~server.broadcasting
          /\ server.exit_status # 0
          /\ server.pc = "exited"
                => server.reported /\ server.exit_status = 1

\* the engine failed to create the third region and the bridge, which
\* opened two regions, could not open the third; both have exited
C30_Witness ==
    /\ engine.create_failed
    /\ regions["/hft_metrics"] = "present"
    /\ engine.pc = "exited"
    /\ server.open_failed
    /\ server.pc = "exited"

\* ------------------------------------------------- the metrics collector
\* the width of a bucket in nanoseconds: ns * 50 / 1000000 = ns / 20000
BucketWidth == MAX_LATENCY_NS \div HISTOGRAM_BUCKETS

NoCallInProgress == \A c \in Callers : callers[c].pc = "idle"

\* C31: record_latency(ns) increments exactly one bucket of the histogram,
\* the one with index min(49, floor(ns * 50 / 1000000)), and leaves the
\* other 49 buckets as they were; every latency from the first to the last
\* nanosecond of bucket k is counted in bucket k.
C31_OneBucketPerLatency ==
    [][\A c \in Callers :
          (callers[c].pc = "histogram" /\ callers'[c].pc = "idle") =>
             LET ns == callers[c].latency_ns
                 index == Min(49, ns \div BucketWidth)
                 before == metrics_collector_.latency_histogram_
                 after == metrics_collector_'.latency_histogram_
             IN  /\ DOMAIN after = 0..49
                 /\ \A b \in 0..49 :
                       after[b] = before[b] + (IF b = index THEN 1 ELSE 0)
                 /\ \A k \in 0..49 :
                       /\ histogram_bucket(k * BucketWidth) = k
                       /\ histogram_bucket((k + 1) * BucketWidth - 1) = k
         ]_vars

\* two calls have returned: a latency of 19999 ns is counted in bucket 0
\* and a latency of 500000000 ns in bucket 49
C31_Witness ==
    /\ NoCallInProgress
    /\ recorded = <<19999, 500000000>>
    /\ metrics_collector_.latency_histogram_[0] = 1
    /\ metrics_collector_.latency_histogram_[49] = 1

RECURSIVE SeqSum(_)
SeqSum(s) == IF s = <<>> THEN 0 ELSE Head(s) + SeqSum(Tail(s))

Range(s) == {s[i] : i \in DOMAIN s}

Smallest(s) == CHOOSE x \in Range(s) : \A y \in Range(s) : x <= y

Largest(s) == CHOOSE x \in Range(s) : \A y \in Range(s) : x >= y

\* C32: get_current_metrics called while no thread is inside record_latency
\* reports the average floor(sum of the recorded latencies / number of
\* samples), the smallest and the largest recorded latency, and the two
\* counters as they stand; with no latency recorded it reports 0 for the
\* average, the minimum and the maximum.
C32_ReportMatchesRecorded ==
    [][(NoCallInProgress /\ system_metrics' # system_metrics) =>
          LET metrics == system_metrics'.metrics
          IN  /\ metrics.orders_processed
                    = metrics_collector_.orders_processed_
              /\ metrics.trades_executed = metrics_collector_.trades_executed_
              /\ IF recorded = <<>>
                 THEN /\ metrics.avg_latency_ns = 0
                      /\ metrics.min_latency_ns = 0
                      /\ metrics.max_latency_ns = 0
                 ELSE /\ metrics.avg_latency_ns
                            = SeqSum(recorded) \div Len(recorded)
                      /\ metrics.min_latency_ns = Smallest(recorded)
                      /\ metrics.max_latency_ns = Largest(recorded)
      ]_vars

\* 0 ns and 19999 ns were recorded and get_current_metrics has reported the
\* average 9999, the minimum 0 and the maximum 19999
C32_Witness ==
    /\ NoCallInProgress
    /\ Range(recorded) = {0, 19999}
    /\ system_metrics.returned
    /\ system_metrics.metrics.avg_latency_ns = 9999
    /\ system_metrics.metrics.min_latency_ns = 0
    /\ system_metrics.metrics.max_latency_ns = 19999

\* C33: orders_processed and trades_executed only grow: no call resets or
\* lowers either counter, and get_current_metrics never reports a smaller
\* value than the call before it did.
C33_CountersOnlyGrow ==
    [][/\ metrics_collector_'.orders_processed_
             >= metrics_collector_.orders_processed_
       /\ metrics_collector_'.trades_executed_
             >= metrics_collector_.trades_executed_
       /\ system_metrics'.metrics.orders_processed
             >= system_metrics.metrics.orders_processed
       /\ system_metrics'.metrics.trades_executed
             >= system_metrics.metrics.trades_executed
      ]_vars

\* get_current_metrics has reported both counters at 2 and latencies have
\* been recorded in between
C33_Witness ==
    /\ system_metrics.returned
    /\ system_metrics.metrics.orders_processed = 2
    /\ system_metrics.metrics.trades_executed = 2
    /\ Len(recorded) = 2

\* C34: when every record_latency call has returned, whatever the
\* interleaving of the callers' steps was, the sample count is the number
\* of calls, the running sum is the sum of the recorded latencies, and the
\* minimum and the maximum are the smallest and the largest of them.
C34_NoUpdateLost ==
    NoCallInProgress =>
        /\ metrics_collector_.latency_samples_ = Len(recorded)
        /\ metrics_collector_.total_latency_ns_ = SeqSum(recorded)
        /\ recorded # <<>> =>
              /\ metrics_collector_.min_latency_ns_ = Smallest(recorded)
              /\ metrics_collector_.max_latency_ns_ = Largest(recorded)

\* two calls, of 1000000 ns and of 19999 ns, have returned
C34_Witness ==
    /\ NoCallInProgress
    /\ recorded = <<1000000, 19999>>
    /\ metrics_collector_.latency_samples_ = 2
    /\ metrics_collector_.min_latency_ns_ = 19999
    /\ metrics_collector_.max_latency_ns_ = 1000000

\* ------------------------------------------------------ the matching loop
\* the number of orders on the book before the k-th trade of the call
OrdersBeforeTrade(k) == SideCount(trades[k].bids) + SideCount(trades[k].asks)

\* the number of orders on the book after the k-th trade of the call
OrdersAfterTrade(k) ==
    IF k < Len(trades) THEN OrdersBeforeTrade(k + 1) ELSE BookCount(Book)

\* C35: the matching loop terminates: every iteration removes at least one
\* order from the book, whatever the quantities (0 included), so a call
\* makes no more iterations than the book held orders when the loop began,
\* and it returns with the best bid below the best ask.
C35_EachIterationRemovesAnOrder ==
    /\ \A k \in 1..Len(trades) : OrdersAfterTrade(k) < OrdersBeforeTrade(k)
    /\ trades # <<>> => Len(trades) <= OrdersBeforeTrade(1)
    /\ \A bp \in DOMAIN bids_, ap \in DOMAIN asks_ :
          bids_[bp].price < asks_[ap].price

\* a call made two iterations, one of them with an order of quantity 0
C35_Witness ==
    /\ Len(trades) = 2
    /\ \E k \in 1..2 : trades[k].quantity = 0

\* C37: the price of every emitted trade lies between the limit prices of
\* its two orders: sell price <= trade price <= buy price.
C37_TradePriceWithinLimits ==
    \A k \in 1..Len(trades) :
        /\ trades[k].sell.price <= trades[k].price
        /\ trades[k].price <= trades[k].buy.price

\* a trade between a buy order and a sell order with a lower limit price
C37_Witness ==
    \E k \in 1..Len(trades) : trades[k].sell.price < trades[k].buy.price

\* ------------------------------------------- readiness and delivery
\* C36: a publication bumps the sequence number, then copies the payload,
\* then sets ready; ready is false until the first payload is written in
\* full and never returns to false, so no broadcast carries a member of
\* the zero-initialised payload.
C36_ReadyOnlyAfterFirstPayload ==
    /\ [](/\ publisher.pc \in {"copy1", "copy2", "ready"} =>
               shared_ob.sequence_number = publisher.local
          /\ publisher.pc = "ready" =>
               shared_ob.payload = <<publisher.local, publisher.local>>
          /\ shared_ob.ready =>
               /\ publisher.published >= 1
               /\ shared_ob.payload[1] >= 1
               /\ shared_ob.payload[2] >= 1
          /\ \A i \in DOMAIN bridge.broadcasts :
               /\ bridge.broadcasts[i].payload[1] >= 1
               /\ bridge.broadcasts[i].payload[2] >= 1)
    /\ [][/\ shared_ob.ready => shared_ob'.ready
          /\ (~shared_ob.ready /\ shared_ob'.ready) =>
                /\ publisher.pc = "ready"
                /\ shared_ob'.payload = <<1, 1>>
                /\ shared_ob'.sequence_number = 1
         ]_vars

\* the bridge has broadcast while the publisher was in its second round
C36_Witness ==
    /\ shared_ob.ready
    /\ bridge.broadcasts # <<>>
    /\ publisher.published >= 1
    /\ publisher.pc \in {"copy1", "copy2", "ready"}

\* Claim C38 as stated: once the publisher has made its last publication,
\* the bridge eventually broadcasts the payload of that publication.
C38_Original ==
    (publisher.published = MaxPublications)
       ~> (\E i \in DOMAIN bridge.broadcasts :
             bridge.broadcasts[i].payload
                = <<MaxPublications, MaxPublications>>)

\* -------------------------------------------------- the dashboard's hook
TimerPending == \E t \in DOMAIN hook.timers : hook.timers[t].state = "pending"

\* Claim C39 as stated: whenever the connection is lost and the status is
\* 'disconnected' (the component neither called disconnect() nor
\* unmounted), a reconnect attempt is pending.
C39_Original ==
    (/\ hook.lost
     /\ ~hook.stopped
     /\ hook.calls = 0
     /\ hook.connectionStatus = "disconnected") => TimerPending

\* Claim C40 as stated: after disconnect() or after the unmount, and until
\* the component calls connect(), no reconnect timer is pending and no
\* WebSocket is created.
C40_Original ==
    hook.stopped =>
        /\ ~TimerPending
        /\ Len(hook.sockets) = hook.sockets_at_stop
====
